---- MODULE Spec2Model ----
(***************************************************************************)
(* MiKTeX Application Framework (Libraries/MiKTeX/App/app.cpp).            *)
(*                                                                         *)
(* The model covers Application::AutoMaintenance (the staleness            *)
(* evaluation, the auto-maintenance lock file and the refresh steps) run   *)
(* by several processes against one data root, and                          *)
(* Application::InstallPackage (the on-demand installer) run by the main   *)
(* task of one process.                                                    *)
(***************************************************************************)
EXTENDS Integers, Sequences, FiniteSets, TLC

\* ------------------------------------------------------------------ bounds
NumProcs == 2
MaxTime == 1
NumPackages == 2
MaxCalls == 2
MaxTraces == 150
MaxFlushTraces == 4
MaxFlushes == 2
MaxSkew == 2
MaxIssues == 2
MaxChecks == 2
MaxArgs == 2

\* Line 806: pendingTraceMessages.size() > 100
PendingLimit == 100

Procs == 1..NumProcs
Times == 0..MaxTime
Packages == 1..NumPackages

\* TriState::True, TriState::False, TriState::Undetermined
TriState == {"True", "False", "Undetermined"}

VARIABLES
    fs,              \* configuration values and files on the shared data root
    lockOwner,       \* processes holding the auto-maintenance lock file
    pc,              \* where each process is
    adminOption,     \* --miktex-admin was given (Session::InitOption::AdminMode)
    adminMode,       \* session->IsAdminMode() of each process
    must,            \* mustRefreshFndb, mustRefreshUserLanguageDat, mustUpdateDb
    ran,             \* refresh steps each process invoked, in order
    errLog,          \* steps whose failure was logged (LOG4CXX_ERROR, LOG4CXX_FATAL)
    raised,          \* what left the current operation by throw, if anything
    sharedSetup,     \* session->IsSharedSetup()
    enableInstaller, \* pimpl->enableInstaller
    mpmAutoAdmin,    \* pimpl->mpmAutoAdmin
    ignoredPackages, \* pimpl->ignoredPackages
    haveObjects,     \* pimpl->packageManager, pimpl->installer, initUiFrameworkDone
    call,            \* locals of the InstallPackage call in progress
    events,          \* collaborator calls made by the current/last InstallPackage
    ret,             \* how the last InstallPackage call ended
    calls,           \* number of InstallPackage calls begun by the main task
    dontAsk,         \* the last answer given together with "don't ask again"
    isLog4cxxConfigured,  \* static bool isLog4cxxConfigured
    pendingTraceMessages, \* pimpl->pendingTraceMessages
    sink,            \* trace messages handed to log4cxx, in order
    cerrOut,         \* trace messages written to cerr, in order
    traced,          \* number of Application::Trace calls so far
    flushed,         \* per Finalize call, the number of messages its flush delivered
    enableMaintenance, \* pimpl->enableMaintenance
    enableDiagnose,  \* pimpl->enableDiagnose
    phases,          \* components in the order main has seen them: "Init",
                     \* "AutoMaintenance" and "AutoDiagnose" when called,
                     \* "RunEnded" when Run has returned or thrown
    status,          \* "running", "returned" (main returned) or "terminated"
    exitCode,        \* argument of the last Finalize2, returned by main
    now,             \* time(nullptr) as AutoDiagnose reads it
    issuesJson,      \* the issue file under the configuration root
    reported,        \* severities of the issues the setup service returns
    beQuiet,         \* pimpl->beQuiet
    logger,          \* pimpl->logger != nullptr
    diagnosed,       \* setup service calls made by AutoDiagnose, in order
    issueLog,        \* log level of each issue AutoDiagnose has logged
    issueEcho,       \* severities of the issues written to cerr
    cancelled,       \* static volatile sig_atomic_t cancelled
    disposition,     \* what the process does on each signal
    checks,          \* how each CheckCancel call of the main task ended
    handled,         \* signals SignalHandler has been called with
    argv,            \* the argument vector as main received it
    args             \* the argument vector as ExamineArgs has left it

maintVars == <<fs, lockOwner, pc, adminMode, must, ran, errLog, raised>>
instVars == <<dontAsk, adminOption, sharedSetup, enableInstaller, mpmAutoAdmin,
              ignoredPackages, haveObjects, call, events, ret, calls>>
traceVars == <<isLog4cxxConfigured, pendingTraceMessages, sink, cerrOut, traced,
               flushed>>
lifeVars == <<enableMaintenance, enableDiagnose, phases, status, exitCode>>
diagVars == <<now, issuesJson, reported, beQuiet, logger, diagnosed, issueLog,
              issueEcho>>
sigVars == <<cancelled, disposition, checks, handled>>
argVars == <<argv, args>>
vars == <<fs, lockOwner, pc, adminMode, must, ran, errLog, raised,
          adminOption, sharedSetup, enableInstaller, mpmAutoAdmin,
          ignoredPackages, haveObjects, call, events, ret, calls, dontAsk,
          isLog4cxxConfigured, pendingTraceMessages, sink, cerrOut, traced,
          flushed, enableMaintenance, enableDiagnose, phases, status, exitCode,
          now, issuesJson, reported, beQuiet, logger, diagnosed, issueLog,
          issueEcho, cancelled, disposition, checks, handled, argv, args>>

\* No process holds the lock file.
NoProc == {}

\* ------------------------------------------------------- files and config
\* A path on disk: File::Exists and File::GetLastWriteTime.
Files == [exists : {TRUE}, mtime : Times] \cup [exists : {FALSE}, mtime : {0}]

FileSystems ==
    [lastAdminMaintenance : Times,
     lastUserMaintenance : Times,
     lastAdminUpdateDb : Times,
     portable : BOOLEAN,
     mpmDatabase : Files,
     userLanguageDat : Files,
     userLanguagesIni : Files,
     userPackageManifestsIni : Files,
     haveUtility : BOOLEAN]

Exists(path) == path.exists

GetLastWriteTime(path) == path.mtime

IsNewerOrSame(path1, path2) ==
    Exists(path1) /\ Exists(path2) /\ GetLastWriteTime(path1) >= GetLastWriteTime(path2)

IsNewer(path1, path2) ==
    Exists(path1) /\ Exists(path2) /\ GetLastWriteTime(path1) > GetLastWriteTime(path2)

IsSetupMode(f) ==
    f.lastAdminMaintenance = 0 /\ f.lastUserMaintenance = 0 /\ ~f.portable

MustRefreshFndb(f, isAdmin) ==
    \/ ~Exists(f.mpmDatabase)
    \/ (~isAdmin /\ f.lastAdminMaintenance > GetLastWriteTime(f.mpmDatabase))

MustRefreshUserLanguageDat(f, isAdmin) ==
    \/ (~isAdmin /\ Exists(f.userLanguageDat)
          /\ f.lastAdminMaintenance > GetLastWriteTime(f.userLanguageDat))
    \/ (~isAdmin /\ IsNewer(f.userLanguagesIni, f.userLanguageDat))

MustUpdateDbAnyMode(f, isAdmin) ==
    Exists(f.userPackageManifestsIni)
        /\ f.lastAdminUpdateDb > GetLastWriteTime(f.userPackageManifestsIni)

MustUpdateDb(f, isAdmin) ==
    IF ~isAdmin
    THEN Exists(f.userPackageManifestsIni)
           /\ f.lastAdminUpdateDb > GetLastWriteTime(f.userPackageManifestsIni)
    ELSE FALSE

NothingStale == [fndb |-> FALSE, lang |-> FALSE, db |-> FALSE]

NoObjects == [packageManager |-> FALSE, installer |-> FALSE, ui |-> FALSE]

NoCall ==
    [pkg |-> 0, switchToAdminMode |-> FALSE, done |-> FALSE, fileList |-> <<>>,
     installRootSet |-> FALSE, msgBoxRet |-> {},
     adminAtEntry |-> FALSE, enableAtEntry |-> "Undetermined",
     autoAdminAtEntry |-> "Undetermined", ignoredAtEntry |-> {},
     objectsAtEntry |-> NoObjects]

\* ------------------------------------------------------------ lock file
\* LockFile::TryLock(0ms): succeeds iff nobody holds the lock file; never waits.
TryLock(p) == lockOwner = NoProc

\* ~LockFile(): the lock file is released if this process holds it.
Unlocked(p) == lockOwner \ {p}

\* Process::Run(..., &exitCode, nullptr): the helper's outcomes and the result.
RunOutcomes == {"exit0", "exit1", "launchFailed"}

ProcessRun(outcome) == outcome = "exit0"

\* ------------------------------------------------------- AutoMaintenance
\* Lines 300-342: fresh-installation check (throw 1), then the three
\* staleness classes.
EvaluateStaleness(p) ==
    /\ pc[p] = "AutoMaintenance"
    /\ IF IsSetupMode(fs)
       THEN /\ pc' = [pc EXCEPT ![p] = "Caught"]
            /\ raised' = [raised EXCEPT ![p] = "int1"]
            /\ must' = must
       ELSE /\ pc' = [pc EXCEPT ![p] = "Lock"]
            /\ must' = [must EXCEPT ![p] =
                         [fndb |-> MustRefreshFndb(fs, adminMode[p]),
                          lang |-> MustRefreshUserLanguageDat(fs, adminMode[p]),
                          db |-> MustUpdateDb(fs, adminMode[p])]]
            /\ raised' = raised
    /\ UNCHANGED <<fs, lockOwner, adminMode, ran, errLog>>
    /\ UNCHANGED instVars
    /\ UNCHANGED traceVars
    /\ UNCHANGED lifeVars
    /\ UNCHANGED <<diagVars, sigVars, argVars>>

\* Line 345: something is stale and the One MiKTeX Utility was found.
WantsMaintenanceAlways(p) == fs.haveUtility

WantsMaintenanceWithoutUtility(p) == must[p].fndb \/ must[p].lang \/ must[p].db

WantsMaintenance(p) ==
    (must[p].fndb \/ must[p].lang \/ must[p].db) /\ fs.haveUtility

\* Line 348: the branch taken after TryLock(0ms).
EntersLockedSectionUnchecked(p) == TRUE

EntersLockedSection(p) == TryLock(p)

\* Lines 347-348: lockFile owns the lock from a successful TryLock until it
\* goes out of scope.
LockDroppedAfterTryLock(p) == lockOwner

LockHeldAfterTryLock(p) == IF TryLock(p) THEN {p} ELSE lockOwner

\* Line 348: TryLock(0ms) returns at once, whoever holds the lock file.
TryLockWaitsForOwner(p) == WantsMaintenance(p) => lockOwner = NoProc

TryLockReturns(p) == TRUE

\* Lines 344-352: nothing to do, or the lock is held elsewhere: return.
\* Otherwise the lock file is taken and the refresh steps follow.
AcquireLock(p) ==
    /\ pc[p] = "Lock"
    /\ TryLockReturns(p)
    /\ IF ~WantsMaintenance(p)
       THEN pc' = [pc EXCEPT ![p] = "Main"] /\ lockOwner' = lockOwner
       ELSE IF ~EntersLockedSection(p)
            THEN pc' = [pc EXCEPT ![p] = "Main"] /\ lockOwner' = Unlocked(p)
            ELSE /\ pc' = [pc EXCEPT ![p] = "UpdateDb"]
                 /\ lockOwner' = LockHeldAfterTryLock(p)
    /\ UNCHANGED <<fs, adminMode, must, ran, errLog, raised>>
    /\ UNCHANGED instVars
    /\ UNCHANGED traceVars
    /\ UNCHANGED lifeVars
    /\ UNCHANGED <<diagVars, sigVars, argVars>>

\* Lines 353, 387, 398, 408: the condition guarding each refresh step.
Scheduled(m, step) ==
    CASE step = "UpdateDb" -> m.db
      [] step = "Fndb" -> m.fndb
      [] step = "Fontmaps" -> m.fndb
      [] step = "Languages" -> m.lang

\* Lines 353-419: the statement that follows each refresh step.
StepAfterSwapped(step) ==
    CASE step = "UpdateDb" -> "Fontmaps"
      [] step = "Fontmaps" -> "Fndb"
      [] step = "Fndb" -> "Languages"
      [] step = "Languages" -> "Unlock"

StepAfter(step) ==
    CASE step = "UpdateDb" -> "Fndb"
      [] step = "Fndb" -> "Fontmaps"
      [] step = "Fontmaps" -> "Languages"
      [] step = "Languages" -> "Unlock"

\* Line 367 left by an exception: lockFile (line 347) is destroyed while the
\* stack unwinds.
LockAfterThrowLeaked(p) == lockOwner

LockAfterThrow(p) == Unlocked(p)

\* PackageInstaller::UpdateDb({FromCache}) returns or throws.
UpdateDbOutcomes == {"ok", "throws"}

\* Lines 353-368: the in-process package database update.
UpdateDb(p) ==
    /\ pc[p] = "UpdateDb"
    /\ IF Scheduled(must[p], "UpdateDb")
       THEN \E outcome \in UpdateDbOutcomes :
              /\ ran' = [ran EXCEPT ![p] = Append(@, "UpdateDb")]
              /\ haveObjects' = [haveObjects EXCEPT
                                   ![p].packageManager = TRUE, ![p].installer = TRUE]
              /\ IF outcome = "ok"
                 THEN /\ pc' = [pc EXCEPT ![p] = StepAfter("UpdateDb")]
                      /\ UNCHANGED <<lockOwner, raised>>
                 ELSE /\ pc' = [pc EXCEPT ![p] = "Caught"]
                      /\ raised' = [raised EXCEPT ![p] = "MiKTeXException"]
                      /\ lockOwner' = LockAfterThrow(p)
       ELSE /\ pc' = [pc EXCEPT ![p] = StepAfter("UpdateDb")]
            /\ UNCHANGED <<lockOwner, raised, ran, haveObjects>>
    /\ UNCHANGED <<fs, adminMode, must, errLog>>
    /\ UNCHANGED traceVars
    /\ UNCHANGED lifeVars
    /\ UNCHANGED <<diagVars, sigVars, argVars>>
    /\ UNCHANGED <<dontAsk, adminOption, sharedSetup, enableInstaller, mpmAutoAdmin,
                   ignoredPackages, call, events, ret, calls>>

\* Lines 387-397, 398-407, 408-418: one run of the One MiKTeX Utility; a
\* false result of Process::Run is logged and the next statement follows.
RunHelper(p, step) ==
    /\ pc[p] = step
    /\ IF Scheduled(must[p], step)
       THEN \E outcome \in RunOutcomes :
              /\ ran' = [ran EXCEPT ![p] = Append(@, step)]
              /\ errLog' = [errLog EXCEPT ![p] =
                              IF ProcessRun(outcome) THEN @ ELSE @ \cup {step}]
       ELSE UNCHANGED <<ran, errLog>>
    /\ pc' = [pc EXCEPT ![p] = StepAfter(step)]
    /\ UNCHANGED <<fs, lockOwner, adminMode, must, raised>>
    /\ UNCHANGED instVars
    /\ UNCHANGED traceVars
    /\ UNCHANGED lifeVars
    /\ UNCHANGED <<diagVars, sigVars, argVars>>

RefreshFndb(p) == RunHelper(p, "Fndb")

ConfigureFontmaps(p) == RunHelper(p, "Fontmaps")

ConfigureLanguages(p) == RunHelper(p, "Languages")

\* Lines 419-420: end of the block; lockFile goes out of scope.
LeaveLockedSection(p) ==
    /\ pc[p] = "Unlock"
    /\ lockOwner' = Unlocked(p)
    /\ pc' = [pc EXCEPT ![p] = "Main"]
    /\ UNCHANGED <<fs, adminMode, must, ran, errLog, raised>>
    /\ UNCHANGED instVars
    /\ UNCHANGED traceVars
    /\ UNCHANGED lifeVars
    /\ UNCHANGED <<diagVars, sigVars, argVars>>

\* ------------------------------------------------------- InstallPackage
\* The values of the call's entry state, kept to state what a call changed.
EntryState(p, pkg) ==
    [NoCall EXCEPT !.pkg = pkg,
                   !.adminAtEntry = adminMode[p],
                   !.enableAtEntry = enableInstaller[p],
                   !.autoAdminAtEntry = mpmAutoAdmin[p],
                   !.ignoredAtEntry = ignoredPackages[p],
                   !.objectsAtEntry = haveObjects[p]]

\* Lines 638-645: a declined package or a disabled installer ends the call.
RejectedByFlagOnly(p, pkg) == enableInstaller[p] = "False"

RejectedByDeclinedSetOnly(p, pkg) == pkg \in ignoredPackages[p]

Rejected(p, pkg) ==
    pkg \in ignoredPackages[p] \/ enableInstaller[p] = "False"

\* Lines 636-649: the main task calls InstallPackage(pkg, ...).
BeginInstallPackage(p, pkg) ==
    /\ pc[p] = "Main"
    /\ calls[p] < MaxCalls
    /\ calls' = [calls EXCEPT ![p] = @ + 1]
    /\ call' = [call EXCEPT ![p] = EntryState(p, pkg)]
    /\ IF Rejected(p, pkg)
       THEN /\ ret' = [ret EXCEPT ![p] = "false"]
            /\ events' = [events EXCEPT ![p] = <<>>]
            /\ UNCHANGED <<pc, haveObjects>>
       ELSE /\ ret' = [ret EXCEPT ![p] = "none"]
            /\ pc' = [pc EXCEPT ![p] = "Prompt"]
            /\ events' = [events EXCEPT ![p] =
                            IF haveObjects[p].packageManager
                            THEN <<>> ELSE <<"CreatePackageManager">>]
            /\ haveObjects' = [haveObjects EXCEPT ![p].packageManager = TRUE]
    /\ UNCHANGED <<fs, lockOwner, adminMode, must, ran, errLog, raised>>
    /\ UNCHANGED traceVars
    /\ UNCHANGED lifeVars
    /\ UNCHANGED <<diagVars, sigVars, argVars>>
    /\ UNCHANGED <<dontAsk, adminOption, sharedSetup, enableInstaller, mpmAutoAdmin,
                   ignoredPackages>>

\* Lines 652-656 and 681-685: the UI framework is initialized once.
WithUi(p, evs) ==
    IF haveObjects[p].ui THEN evs ELSE Append(evs, "InitializeFramework")

\* Line 666: the declined set after the user said no.
DeclinedOnlyLastRefusal(p) == {call[p].pkg}

DeclinedUnchangedAfterRefusal(p) == ignoredPackages[p]

DeclinedAfterRefusal(p) == ignoredPackages[p] \cup {call[p].pkg}

\* Lines 657-659: the bits of msgBoxRet.
MsgBoxBits == {"YES", "DONTASKAGAIN", "ADMIN"}

\* Lines 660-663: "don't ask again" keeps the answer in the installer flag.
FlagAfterAnswerForgotten(p, msgBoxRet) == enableInstaller[p]

FlagAfterAnswer(p, msgBoxRet) ==
    IF "DONTASKAGAIN" \in msgBoxRet
    THEN (IF "YES" \in msgBoxRet THEN "True" ELSE "False")
    ELSE enableInstaller[p]

\* Lines 650-670: with the installer flag undetermined the user is asked.
PromptUser(p) ==
    /\ pc[p] = "Prompt"
    /\ IF enableInstaller[p] = "Undetermined"
       THEN \E msgBoxRet \in SUBSET MsgBoxBits :
              /\ haveObjects' = [haveObjects EXCEPT ![p].ui = TRUE]
              /\ events' = [events EXCEPT ![p] =
                              Append(WithUi(p, @), "InstallPackageMessageBox")]
              /\ call' = [call EXCEPT ![p].msgBoxRet = msgBoxRet]
              /\ enableInstaller' = [enableInstaller EXCEPT
                                       ![p] = FlagAfterAnswer(p, msgBoxRet)]
              /\ dontAsk' = [dontAsk EXCEPT ![p] =
                               IF "DONTASKAGAIN" \in msgBoxRet
                               THEN (IF "YES" \in msgBoxRet THEN "yes" ELSE "no")
                               ELSE @]
              /\ IF "YES" \notin msgBoxRet
                 THEN /\ ignoredPackages' = [ignoredPackages EXCEPT
                                              ![p] = DeclinedAfterRefusal(p)]
                      /\ ret' = [ret EXCEPT ![p] = "false"]
                      /\ pc' = [pc EXCEPT ![p] = "Main"]
                      /\ UNCHANGED mpmAutoAdmin
                 ELSE /\ mpmAutoAdmin' = [mpmAutoAdmin EXCEPT ![p] =
                                            IF "ADMIN" \in msgBoxRet
                                            THEN "True" ELSE "False"]
                      /\ pc' = [pc EXCEPT ![p] = "Proxy"]
                      /\ UNCHANGED <<ignoredPackages, ret>>
       ELSE /\ pc' = [pc EXCEPT ![p] = "Proxy"]
            /\ UNCHANGED <<haveObjects, events, enableInstaller, call,
                           ignoredPackages, ret, mpmAutoAdmin, dontAsk>>
    /\ UNCHANGED <<fs, lockOwner, adminMode, must, ran, errLog, raised>>
    /\ UNCHANGED traceVars
    /\ UNCHANGED lifeVars
    /\ UNCHANGED <<diagVars, sigVars, argVars>>
    /\ UNCHANGED <<adminOption, sharedSetup, calls>>

\* Lines 686-689: a cancelled proxy dialog only returns false.
DeclinedGrownAfterProxyCancel(p) == ignoredPackages[p] \cup {call[p].pkg}

DeclinedAfterProxyCancel(p) == ignoredPackages[p]

\* Lines 671-690: a remote repository behind a proxy that wants a user name.
ProxyAuthentication(p) ==
    /\ pc[p] = "Proxy"
    /\ \E needed \in BOOLEAN, entered \in BOOLEAN :
         IF needed
         THEN /\ haveObjects' = [haveObjects EXCEPT ![p].ui = TRUE]
              /\ events' = [events EXCEPT ![p] =
                              Append(WithUi(p, @), "ProxyAuthenticationDialog")]
              /\ IF entered
                 THEN /\ pc' = [pc EXCEPT ![p] = "Elevate"]
                      /\ UNCHANGED <<ret, ignoredPackages>>
                 ELSE /\ pc' = [pc EXCEPT ![p] = "Main"]
                      /\ ret' = [ret EXCEPT ![p] = "false"]
                      /\ ignoredPackages' = [ignoredPackages EXCEPT
                                               ![p] = DeclinedAfterProxyCancel(p)]
         ELSE /\ pc' = [pc EXCEPT ![p] = "Elevate"]
              /\ UNCHANGED <<haveObjects, events, ret, ignoredPackages>>
    /\ UNCHANGED <<fs, lockOwner, adminMode, must, ran, errLog, raised>>
    /\ UNCHANGED traceVars
    /\ UNCHANGED lifeVars
    /\ UNCHANGED <<diagVars, sigVars, argVars>>
    /\ UNCHANGED <<dontAsk, adminOption, sharedSetup, enableInstaller, mpmAutoAdmin,
                   call, calls>>

\* Line 701: bool switchToAdminMode.
SwitchToAdminModeByPolicyOnly(p) == mpmAutoAdmin[p] = "True"

SwitchToAdminMode(p) == mpmAutoAdmin[p] = "True" /\ ~adminMode[p]

\* Lines 691-705: installer object, file list, and the switch to admin mode.
Elevate(p) ==
    /\ pc[p] = "Elevate"
    /\ haveObjects' = [haveObjects EXCEPT ![p].installer = TRUE]
    /\ call' = [call EXCEPT ![p].fileList = <<call[p].pkg>>,
                            ![p].switchToAdminMode = SwitchToAdminMode(p)]
    /\ events' = [events EXCEPT ![p] =
                    (IF haveObjects[p].installer THEN @ ELSE Append(@, "CreateInstaller"))
                    \o <<"SetFileLists">>
                    \o (IF SwitchToAdminMode(p) THEN <<"SetAdminMode(true)">> ELSE <<>>)]
    /\ adminMode' = [adminMode EXCEPT ![p] = IF SwitchToAdminMode(p) THEN TRUE ELSE @]
    /\ pc' = [pc EXCEPT ![p] = "Install"]
    /\ UNCHANGED <<fs, lockOwner, must, ran, errLog, raised>>
    /\ UNCHANGED traceVars
    /\ UNCHANGED lifeVars
    /\ UNCHANGED <<diagVars, sigVars, argVars>>
    /\ UNCHANGED <<dontAsk, adminOption, sharedSetup, enableInstaller, mpmAutoAdmin,
                   ignoredPackages, ret, calls>>

\* PackageInstaller::InstallRemove returns, throws a MiKTeXException, or
\* throws something that is not a MiKTeXException (the handlers of main
\* expect std::exception and int as well).
InstallOutcomes == {"ok", "MiKTeXException", "otherException"}

\* Line 714: the installer flag after a MiKTeXException of the installer.
FlagResetAfterInstallerFailure(p) == "Undetermined"

FlagKeptAfterInstallerFailure(p) == enableInstaller[p]

FlagAfterInstallerFailure(p) == "False"

\* Lines 709-710: installRoot is assigned after InstallRemove has returned.
InstallRootWrittenAlways(outcome) == TRUE

InstallRootWritten(outcome) == outcome = "ok"

\* Lines 706-720: the installer call and its only handler, which disables
\* the installer, declines the package and logs at fatal level.
InstallRemove(p) ==
    /\ pc[p] = "Install"
    /\ events' = [events EXCEPT ![p] = Append(@, "InstallRemove")]
    /\ \E outcome \in InstallOutcomes :
         /\ call' = [call EXCEPT ![p].done = (outcome = "ok"),
                                 ![p].installRootSet = InstallRootWritten(outcome)]
         /\ CASE outcome = "ok" ->
                /\ pc' = [pc EXCEPT ![p] = "Restore"]
                /\ UNCHANGED <<enableInstaller, ignoredPackages, raised, ret, errLog>>
           [] outcome = "MiKTeXException" ->
                /\ enableInstaller' = [enableInstaller EXCEPT
                                         ![p] = FlagAfterInstallerFailure(p)]
                /\ ignoredPackages' = [ignoredPackages EXCEPT
                                         ![p] = @ \cup {call[p].pkg}]
                /\ errLog' = [errLog EXCEPT ![p] = @ \cup {"InstallRemove"}]
                /\ pc' = [pc EXCEPT ![p] = "Restore"]
                /\ UNCHANGED <<raised, ret>>
           [] outcome = "otherException" ->
                /\ pc' = [pc EXCEPT ![p] = "Caught"]
                /\ raised' = [raised EXCEPT ![p] = "exception"]
                /\ ret' = [ret EXCEPT ![p] = "threw"]
                /\ UNCHANGED <<enableInstaller, ignoredPackages, errLog>>
    /\ UNCHANGED <<fs, lockOwner, adminMode, must, ran>>
    /\ UNCHANGED traceVars
    /\ UNCHANGED lifeVars
    /\ UNCHANGED <<diagVars, sigVars, argVars>>
    /\ UNCHANGED <<dontAsk, adminOption, sharedSetup, mpmAutoAdmin, haveObjects, calls>>

\* Lines 721-725: back to user mode if this call switched, and the result.
RestoreMode(p) ==
    /\ pc[p] = "Restore"
    /\ adminMode' = [adminMode EXCEPT ![p] =
                       IF call[p].switchToAdminMode THEN FALSE ELSE @]
    /\ events' = [events EXCEPT ![p] =
                    IF call[p].switchToAdminMode
                    THEN Append(@, "SetAdminMode(false)") ELSE @]
    /\ ret' = [ret EXCEPT ![p] = IF call[p].done THEN "true" ELSE "false"]
    /\ pc' = [pc EXCEPT ![p] = "Main"]
    /\ UNCHANGED <<fs, lockOwner, must, ran, errLog, raised>>
    /\ UNCHANGED traceVars
    /\ UNCHANGED lifeVars
    /\ UNCHANGED <<diagVars, sigVars, argVars>>
    /\ UNCHANGED <<dontAsk, adminOption, sharedSetup, enableInstaller, mpmAutoAdmin,
                   ignoredPackages, haveObjects, call, calls>>

\* Lines 792-795: Application::EnableInstaller(tri), called by the main task.
EnableInstaller(p, tri) ==
    /\ pc[p] = "Main"
    /\ enableInstaller' = [enableInstaller EXCEPT ![p] = tri]
    /\ UNCHANGED maintVars
    /\ UNCHANGED traceVars
    /\ UNCHANGED lifeVars
    /\ UNCHANGED <<diagVars, sigVars, argVars>>
    /\ UNCHANGED <<dontAsk, adminOption, sharedSetup, mpmAutoAdmin, ignoredPackages,
                   haveObjects, call, events, ret, calls>>

\* ---------------------------------------------------------- trace buffer
\* Line 806: the test made before a message is queued.
OverflowsNever(q) == FALSE

OverflowsAtLimit(q) == Len(q) >= PendingLimit

Overflows(q) == Len(q) > PendingLimit

\* Lines 804-811: a message queued while log4cxx is not configured.
Queued(q, traceMessage) ==
    Append(IF Overflows(q) THEN <<>> ELSE q, traceMessage)

\* Line 824: the queue after FlushPendingTraceMessages.
PendingKeptAfterFlush(q) == q

PendingAfterFlush(q) == <<>>

\* Lines 827-859: TraceInternal writes to log4cxx once it is configured and
\* to cerr before. The output out is that of log4cxx iff toLog4cxx.
TraceInternal(out, toLog4cxx, traceMessages) ==
    IF isLog4cxxConfigured = toLog4cxx THEN out \o traceMessages ELSE out

\* Lines 818-825: FlushPendingTraceMessages, as the values it leaves.
FlushPendingTraceMessages ==
    [sink |-> TraceInternal(sink, TRUE, pendingTraceMessages),
     cerrOut |-> TraceInternal(cerrOut, FALSE, pendingTraceMessages),
     pending |-> PendingAfterFlush(pendingTraceMessages)]

\* Lines 813-814: with log4cxx configured the message is written after the
\* pending messages.
DirectTraceFirst(out, traceMessage) == <<traceMessage>> \o out

DirectTrace(out, traceMessage) == Append(out, traceMessage)

\* Lines 802-816: the session calls Application::Trace(traceMessage);
\* messages are numbered in the order in which they arrive.
Trace(traceMessage) ==
    /\ traceMessage = traced + 1
    /\ traced' = traceMessage
    /\ IF ~isLog4cxxConfigured
       THEN /\ pendingTraceMessages' = Queued(pendingTraceMessages, traceMessage)
            /\ UNCHANGED <<sink, cerrOut>>
       ELSE /\ pendingTraceMessages' = FlushPendingTraceMessages.pending
            /\ sink' = DirectTrace(FlushPendingTraceMessages.sink, traceMessage)
            /\ cerrOut' = FlushPendingTraceMessages.cerrOut
    /\ UNCHANGED <<isLog4cxxConfigured, flushed>>
    /\ UNCHANGED maintVars
    /\ UNCHANGED instVars
    /\ UNCHANGED lifeVars
    /\ UNCHANGED <<diagVars, sigVars, argVars>>

\* Lines 268-291, called by Init at line 473: log4cxx is configured.
ConfigureLogging ==
    /\ ~isLog4cxxConfigured
    /\ isLog4cxxConfigured' = TRUE
    /\ logger' = TRUE
    /\ UNCHANGED <<pendingTraceMessages, sink, cerrOut, traced, flushed>>
    /\ UNCHANGED maintVars
    /\ UNCHANGED instVars
    /\ UNCHANGED lifeVars
    /\ UNCHANGED <<now, issuesJson, reported, beQuiet, diagnosed, issueLog,
                   issueEcho>>
    /\ UNCHANGED <<sigVars, argVars>>

\* --------------------------------------------------------------- signals
\* Lines 509-510: the signals Init installs SignalHandler for.
InterruptSignals == {"SIGINT", "SIGTERM"}

\* Lines 171-186: signal(sig, SignalHandler); a previous disposition other
\* than SIG_DFL is put back.
InstallSignalHandler(oldHandlerFunc) ==
    IF oldHandlerFunc = "SIG_DFL" THEN "SignalHandler" ELSE oldHandlerFunc

\* What a process inherits for a signal when it is started.
InheritedDispositions == {"SIG_DFL", "SIG_IGN"}

CancelledAfterSigintOnly(sig) == IF sig = "SIGINT" THEN 1 ELSE cancelled

\* Lines 82-89: cancelled = true for SIGINT and SIGTERM, nothing for any
\* other signal.
CancelledAfter(sig) == IF sig \in {"SIGINT", "SIGTERM"} THEN 1 ELSE cancelled

\* Lines 80-90: SignalHandler(sig) has run. signal(SIGINT, SIG_IGN) of line
\* 86 ignores further SIGINTs; whether the disposition of the delivered
\* signal was reset to SIG_DFL before the handler ran is up to the
\* implementation of signal().
DispositionAfter(sig, reset) ==
    [s \in DOMAIN disposition |->
        IF s = "SIGINT" THEN "SIG_IGN"
        ELSE IF s = sig /\ reset THEN "SIG_DFL"
        ELSE disposition[s]]

\* A signal is delivered to process p: SignalHandler runs (lines 80-90) if
\* it is installed, the default action ends the process if not. An ignored
\* signal is not delivered.
Signal(p, sig) ==
    /\ pc[p] # "Exited"
    /\ disposition[sig] # "SIG_IGN"
    /\ IF disposition[sig] = "SignalHandler"
       THEN /\ cancelled' = CancelledAfter(sig)
            /\ \E reset \in BOOLEAN : disposition' = DispositionAfter(sig, reset)
            /\ handled' = handled \cup {sig}
            /\ UNCHANGED <<pc, status>>
       ELSE /\ pc' = [pc EXCEPT ![p] = "Exited"]
            /\ status' = [status EXCEPT ![p] = "terminated"]
            /\ UNCHANGED <<cancelled, disposition, handled>>
    /\ UNCHANGED <<fs, lockOwner, adminMode, must, ran, errLog, raised>>
    /\ UNCHANGED instVars
    /\ UNCHANGED traceVars
    /\ UNCHANGED <<enableMaintenance, enableDiagnose, phases, exitCode>>
    /\ UNCHANGED <<diagVars, checks, argVars>>

\* Lines 92-95.
Cancelled == IF cancelled = 0 THEN FALSE ELSE TRUE

\* Lines 143-149: the main task calls CheckCancel, which throws a
\* MiKTeXException if the process has been cancelled.
CheckCancel(p) ==
    /\ pc[p] = "Main"
    /\ Len(checks) < MaxChecks
    /\ IF Cancelled
       THEN /\ checks' = Append(checks, "raised")
            /\ raised' = [raised EXCEPT ![p] = "MiKTeXException"]
            /\ pc' = [pc EXCEPT ![p] = "Caught"]
            /\ phases' = [phases EXCEPT ![p] = Append(@, "RunEnded")]
       ELSE /\ checks' = Append(checks, "returned")
            /\ UNCHANGED <<raised, pc, phases>>
    /\ UNCHANGED <<fs, lockOwner, adminMode, must, ran, errLog>>
    /\ UNCHANGED instVars
    /\ UNCHANGED traceVars
    /\ UNCHANGED <<enableMaintenance, enableDiagnose, status, exitCode>>
    /\ UNCHANGED <<diagVars, cancelled, disposition, handled, argVars>>

\* ------------------------------------------------------------------ main
\* maketfm.cpp lines 263 and 270; app.cpp line 317 (throw 1).
EXIT_SUCCESS == 0
EXIT_FAILURE == 1
SetupSignal == 1

\* Lines 196-220: the options ExamineArgs takes out of the argument vector.
FrameworkOptions ==
    {"--miktex-admin",
     "--miktex-disable-installer", "--miktex-enable-installer",
     "--miktex-disable-maintenance", "--miktex-enable-maintenance",
     "--miktex-disable-diagnose", "--miktex-enable-diagnose"}

\* The value a switch has after the arguments up to arg if the first option
\* given for it were to win.
ExamineArgFirstWins(flags, arg) ==
    CASE arg = "--miktex-admin" -> [flags EXCEPT !.adminMode = TRUE]
      [] arg = "--miktex-disable-installer" /\ flags.enableInstaller = "Undetermined" ->
            [flags EXCEPT !.enableInstaller = "False"]
      [] arg = "--miktex-enable-installer" /\ flags.enableInstaller = "Undetermined" ->
            [flags EXCEPT !.enableInstaller = "True"]
      [] arg = "--miktex-disable-maintenance" /\ flags.enableMaintenance = "Undetermined" ->
            [flags EXCEPT !.enableMaintenance = "False"]
      [] arg = "--miktex-enable-maintenance" /\ flags.enableMaintenance = "Undetermined" ->
            [flags EXCEPT !.enableMaintenance = "True"]
      [] arg = "--miktex-disable-diagnose" /\ flags.enableDiagnose = "Undetermined" ->
            [flags EXCEPT !.enableDiagnose = "False"]
      [] arg = "--miktex-enable-diagnose" /\ flags.enableDiagnose = "Undetermined" ->
            [flags EXCEPT !.enableDiagnose = "True"]
      [] OTHER -> flags

\* Lines 196-227: one turn of the loop of ExamineArgs.
ExamineArg(flags, arg) ==
    CASE arg = "--miktex-admin" -> [flags EXCEPT !.adminMode = TRUE]
      [] arg = "--miktex-disable-installer" -> [flags EXCEPT !.enableInstaller = "False"]
      [] arg = "--miktex-enable-installer" -> [flags EXCEPT !.enableInstaller = "True"]
      [] arg = "--miktex-disable-maintenance" -> [flags EXCEPT !.enableMaintenance = "False"]
      [] arg = "--miktex-enable-maintenance" -> [flags EXCEPT !.enableMaintenance = "True"]
      [] arg = "--miktex-disable-diagnose" -> [flags EXCEPT !.enableDiagnose = "False"]
      [] arg = "--miktex-enable-diagnose" -> [flags EXCEPT !.enableDiagnose = "True"]
      [] OTHER -> flags

\* Lines 191-236: the loop over the arguments, first to last.
RECURSIVE ExamineArgsFrom(_, _)
ExamineArgsFrom(flags, rest) ==
    IF rest = <<>> THEN flags
    ELSE ExamineArgsFrom(ExamineArg(flags, Head(rest)), Tail(rest))

\* Lines 228-235: an argument that is not an option of the framework is
\* kept, an option is erased.
KeptArguments(arguments) ==
    SelectSeq(arguments, LAMBDA arg : arg \notin FrameworkOptions)

\* Lines 188-238, called by Init at line 264: ExamineArgs sets the switches
\* of the options found and erases the options from the argument vector.
ExamineArgs(p) ==
    /\ pc[p] = "ExamineArgs"
    /\ LET flags == ExamineArgsFrom([adminMode |-> adminOption[p],
                                     enableInstaller |-> enableInstaller[p],
                                     enableMaintenance |-> enableMaintenance[p],
                                     enableDiagnose |-> enableDiagnose[p]], args)
       IN /\ adminOption' = [adminOption EXCEPT ![p] = flags.adminMode]
          /\ enableInstaller' = [enableInstaller EXCEPT ![p] = flags.enableInstaller]
          /\ enableMaintenance' = [enableMaintenance EXCEPT ![p] = flags.enableMaintenance]
          /\ enableDiagnose' = [enableDiagnose EXCEPT ![p] = flags.enableDiagnose]
    /\ args' = KeptArguments(args)
    /\ pc' = [pc EXCEPT ![p] = "Init"]
    /\ UNCHANGED <<fs, lockOwner, adminMode, must, ran, errLog, raised>>
    /\ UNCHANGED <<dontAsk, sharedSetup, mpmAutoAdmin, ignoredPackages, haveObjects,
                   call, events, ret, calls>>
    /\ UNCHANGED traceVars
    /\ UNCHANGED <<phases, status, exitCode>>
    /\ UNCHANGED <<diagVars, sigVars, argv>>

\* Lines 503-508: AutoAdmin=t is ignored unless the setup is shared.
AutoAdminAtInit(autoAdmin, shared) ==
    IF autoAdmin = "True" /\ ~shared THEN "False" ELSE autoAdmin

\* Lines 510-517: a feature that no option has switched is enabled.
EnabledByDefault(tri) == IF tri = "Undetermined" THEN "True" ELSE tri

\* Lines 470-526: Init. The session is created in admin mode iff the option
\* was given, logging is configured and the signal handlers installed, the
\* installer flags are read from the configuration, maintenance and diagnose
\* default to enabled, and AutoMaintenance is called if enabled.
ApplicationInit(p) ==
    /\ pc[p] = "Init"
    /\ isLog4cxxConfigured' = TRUE
    /\ logger' = TRUE
    /\ beQuiet' = FALSE
    /\ disposition' = [sig \in DOMAIN disposition |->
                         IF sig \in InterruptSignals
                         THEN InstallSignalHandler(disposition[sig])
                         ELSE disposition[sig]]
    /\ \E autoInstall \in TriState, autoAdmin \in TriState :
         /\ enableInstaller' = [enableInstaller EXCEPT ![p] =
                                  IF @ = "Undetermined" THEN autoInstall ELSE @]
         /\ mpmAutoAdmin' = [mpmAutoAdmin EXCEPT ![p] =
                               AutoAdminAtInit(autoAdmin, sharedSetup[p])]
    /\ enableMaintenance' = [enableMaintenance EXCEPT ![p] = EnabledByDefault(@)]
    /\ enableDiagnose' = [enableDiagnose EXCEPT ![p] = EnabledByDefault(@)]
    /\ IF EnabledByDefault(enableMaintenance[p]) = "True"
       THEN /\ pc' = [pc EXCEPT ![p] = "AutoMaintenance"]
            /\ phases' = [phases EXCEPT ![p] = Append(@, "AutoMaintenance")]
       ELSE /\ pc' = [pc EXCEPT ![p] = "Main"]
            /\ phases' = phases
    /\ adminMode' = [adminMode EXCEPT ![p] = adminOption[p]]
    /\ UNCHANGED <<fs, lockOwner, must, ran, errLog, raised>>
    /\ UNCHANGED <<dontAsk, adminOption, sharedSetup, ignoredPackages, haveObjects,
                   call, events, ret, calls>>
    /\ UNCHANGED <<pendingTraceMessages, sink, cerrOut, traced, flushed>>
    /\ UNCHANGED <<status, exitCode>>
    /\ UNCHANGED <<now, issuesJson, reported, diagnosed, issueLog, issueEcho>>
    /\ UNCHANGED <<cancelled, checks, handled>>
    /\ UNCHANGED argVars

\* Lines 472-473: Init is left by an exception of the translator or of
\* ConfigureLogging: the session exists, the logger does not, and a handler
\* of main takes over (maketfm.cpp lines 266-277).
InitFails(p) ==
    /\ pc[p] = "Init"
    /\ pc' = [pc EXCEPT ![p] = "Caught"]
    /\ \E outcome \in {"MiKTeXException", "exception"} :
         raised' = [raised EXCEPT ![p] = outcome]
    /\ UNCHANGED <<fs, lockOwner, adminMode, must, ran, errLog>>
    /\ UNCHANGED instVars
    /\ UNCHANGED traceVars
    /\ UNCHANGED lifeVars
    /\ UNCHANGED <<diagVars, sigVars, argVars>>

\* Lines 1087-1090: the main task sets the quiet flag.
SetQuietFlag(p, b) ==
    /\ pc[p] = "Main"
    /\ beQuiet # b
    /\ beQuiet' = b
    /\ UNCHANGED maintVars
    /\ UNCHANGED instVars
    /\ UNCHANGED traceVars
    /\ UNCHANGED lifeVars
    /\ UNCHANGED <<now, issuesJson, reported, logger, diagnosed, issueLog,
                   issueEcho>>
    /\ UNCHANGED <<sigVars, argVars>>

\* What the main task can end with (maketfm.cpp lines 262-278).
RunOutcomesOfMain == {"ok", "MiKTeXException", "exception"}

\* maketfm.cpp lines 262-263: Run ends; if it returns, main calls
\* Finalize2(EXIT_SUCCESS), otherwise a handler of main takes over.
Run(p) ==
    /\ pc[p] = "Main"
    /\ phases' = [phases EXCEPT ![p] = Append(@, "RunEnded")]
    /\ \E outcome \in RunOutcomesOfMain :
         IF outcome = "ok"
         THEN /\ pc' = [pc EXCEPT ![p] = "Finalize2"]
              /\ exitCode' = [exitCode EXCEPT ![p] = EXIT_SUCCESS]
              /\ raised' = raised
         ELSE /\ pc' = [pc EXCEPT ![p] = "Caught"]
              /\ raised' = [raised EXCEPT ![p] = outcome]
              /\ exitCode' = exitCode
    /\ UNCHANGED <<fs, lockOwner, adminMode, must, ran, errLog>>
    /\ UNCHANGED instVars
    /\ UNCHANGED traceVars
    /\ UNCHANGED <<enableMaintenance, enableDiagnose, status>>
    /\ UNCHANGED <<diagVars, sigVars, argVars>>

\* maketfm.cpp lines 266-284: the exit code chosen by the handlers of main.
ExitCodeOf(r) == IF r = "int1" THEN SetupSignal ELSE EXIT_FAILURE

\* maketfm.cpp lines 266-284: a handler of main catches what was thrown and
\* calls Finalize2 with its exit code.
MainCatch(p) ==
    /\ pc[p] = "Caught"
    /\ pc' = [pc EXCEPT ![p] = "Finalize2Catch"]
    /\ exitCode' = [exitCode EXCEPT ![p] = ExitCodeOf(raised[p])]
    /\ UNCHANGED <<fs, lockOwner, adminMode, must, ran, errLog, raised>>
    /\ UNCHANGED instVars
    /\ UNCHANGED traceVars
    /\ UNCHANGED <<enableMaintenance, enableDiagnose, phases, status>>
    /\ UNCHANGED <<diagVars, sigVars, argVars>>

\* Lines 422-423.
ONE_DAY == 86400

ONE_WEEK == 7 * ONE_DAY

\* Setup::IssueSeverity as lines 444-457 tell the values apart: Critical,
\* Major and the others.
IssueSeverity == {"Critical", "Major", "Minor", "Warning"}

IssuesExpiredAtOneWeek(file, t) ==
    ~Exists(file) \/ t >= GetLastWriteTime(file) + ONE_WEEK

\* Line 431: the issue file is missing or was written more than a week ago.
IssuesExpired(file, t) ==
    ~Exists(file) \/ t > GetLastWriteTime(file) + ONE_WEEK

\* Lines 431-438: FindIssues recomputes the issues, GetIssues loads them.
SetupServiceCall(file, t) ==
    IF IssuesExpired(file, t) THEN "FindIssues" ELSE "GetIssues"

\* Lines 444-455: LOG4CXX_FATAL, LOG4CXX_ERROR or LOG4CXX_WARN.
LogLevel(severity) ==
    CASE severity = "Critical" -> "FATAL"
      [] severity = "Major" -> "ERROR"
      [] OTHER -> "WARN"

\* Line 442: an issue is logged only if the logger exists.
LoggedIssues(issues, haveLogger) ==
    IF haveLogger
    THEN [i \in 1..Len(issues) |-> <<issues[i], LogLevel(issues[i])>>]
    ELSE <<>>

EchoesWhenQuiet(severity, quiet) == severity \in {"Critical", "Major"}

\* Line 457: the issue is written to cerr.
Echoes(severity, quiet) == severity \in {"Critical", "Major"} /\ ~quiet

EchoedIssues(issues, quiet) ==
    SelectSeq(issues, LAMBDA severity : Echoes(severity, quiet))

\* Lines 425-462: what one AutoDiagnose call that returns does: the setup
\* service call it makes, the issues it logs and the issues it echoes.
AutoDiagnose ==
    [call |-> SetupServiceCall(issuesJson, now),
     logged |-> LoggedIssues(reported, logger),
     echoed |-> EchoedIssues(reported, beQuiet)]

\* SetupService::FindIssues and SetupService::GetIssues return the issues
\* or fail with a MiKTeXException.
DiagnoseOutcomes == {"ok", "MiKTeXException"}

\* Lines 569-572: AutoDiagnose is called iff diagnose is enabled; nothing in
\* AutoDiagnose (lines 425-462) or Finalize catches what it throws.
DiagnoseThrows(p, outcome) == enableDiagnose[p] = "True" /\ outcome # "ok"

\* Where control goes when Finalize is left by an exception: to the
\* handlers of main from its try block (maketfm.cpp line 263), to
\* std::terminate from a handler (lines 270, 277, 282).
AfterThrowInFinalize(p) == IF pc[p] = "Finalize2Catch" THEN "Exited" ELSE "Caught"

\* Lines 567-595: Finalize runs AutoDiagnose if enabled, flushes the pending
\* messages and drops the installer, the package manager, the declined set
\* and the UI framework; main then returns the exit code.
Finalize(p) ==
    /\ Len(flushed) < MaxFlushes
    /\ phases' = [phases EXCEPT ![p] =
                    IF enableDiagnose[p] = "True"
                    THEN Append(@, "AutoDiagnose") ELSE @]
    /\ \E outcome \in DiagnoseOutcomes :
         IF DiagnoseThrows(p, outcome)
         THEN /\ raised' = [raised EXCEPT ![p] = outcome]
              /\ pc' = [pc EXCEPT ![p] = AfterThrowInFinalize(p)]
              /\ status' = [status EXCEPT ![p] =
                              IF pc[p] = "Finalize2Catch" THEN "terminated" ELSE @]
              /\ diagnosed' = Append(diagnosed, AutoDiagnose.call)
              /\ UNCHANGED <<pendingTraceMessages, sink, cerrOut, flushed,
                             haveObjects, ignoredPackages, issueLog, issueEcho,
                             logger>>
         ELSE /\ flushed' = Append(flushed,
                                   Len(FlushPendingTraceMessages.sink)
                                   + Len(FlushPendingTraceMessages.cerrOut)
                                   - Len(sink) - Len(cerrOut))
              /\ pendingTraceMessages' = FlushPendingTraceMessages.pending
              /\ sink' = FlushPendingTraceMessages.sink
              /\ cerrOut' = FlushPendingTraceMessages.cerrOut
              /\ haveObjects' = [haveObjects EXCEPT ![p] = NoObjects]
              /\ ignoredPackages' = [ignoredPackages EXCEPT ![p] = {}]
              /\ pc' = [pc EXCEPT ![p] = "Exited"]
              /\ status' = [status EXCEPT ![p] =
                              IF pc[p] \in {"Finalize2", "Finalize2Catch"}
                              THEN "returned" ELSE @]
              /\ raised' = raised
              /\ IF enableDiagnose[p] = "True"
                 THEN /\ diagnosed' = Append(diagnosed, AutoDiagnose.call)
                      /\ issueLog' = issueLog \o AutoDiagnose.logged
                      /\ issueEcho' = issueEcho \o AutoDiagnose.echoed
                 ELSE UNCHANGED <<diagnosed, issueLog, issueEcho>>
              /\ logger' = FALSE
    /\ UNCHANGED <<now, issuesJson, reported, beQuiet>>
    /\ UNCHANGED <<sigVars, argVars>>
    /\ UNCHANGED <<isLog4cxxConfigured, traced>>
    /\ UNCHANGED <<fs, lockOwner, adminMode, must, ran, errLog>>
    /\ UNCHANGED <<dontAsk, adminOption, sharedSetup, enableInstaller, mpmAutoAdmin,
                   call, events, ret, calls>>
    /\ UNCHANGED <<enableMaintenance, enableDiagnose, exitCode>>

\* Lines 557-565, maketfm.cpp lines 263-283: main calls Finalize2, which
\* logs the exit code and calls Finalize.
Finalize2(p) ==
    /\ pc[p] \in {"Finalize2", "Finalize2Catch"}
    /\ Finalize(p)

\* ------------------------------------------------------- specifications
\* The installer state of a process that has made no InstallPackage call.
InstallerIdle ==
    /\ sharedSetup = [p \in Procs |-> FALSE]
    /\ enableInstaller = [p \in Procs |-> "Undetermined"]
    /\ mpmAutoAdmin = [p \in Procs |-> "Undetermined"]
    /\ ignoredPackages = [p \in Procs |-> {}]
    /\ haveObjects = [p \in Procs |-> NoObjects]
    /\ call = [p \in Procs |-> NoCall]
    /\ events = [p \in Procs |-> <<>>]
    /\ ret = [p \in Procs |-> "none"]
    /\ calls = [p \in Procs |-> 0]
    /\ dontAsk = [p \in Procs |-> "none"]

\* Init has configured logging (line 473) and nothing is pending.
TraceQuiet ==
    /\ isLog4cxxConfigured = TRUE
    /\ pendingTraceMessages = <<>>
    /\ sink = <<>>
    /\ cerrOut = <<>>
    /\ traced = 0
    /\ flushed = <<>>

\* Init has returned or has called AutoMaintenance (line 525): lines 510-517
\* have enabled maintenance and diagnose, which no option had disabled.
LifeAfterInit ==
    /\ enableMaintenance = [p \in Procs |-> "True"]
    /\ enableDiagnose = [p \in Procs |-> "True"]
    /\ phases = [p \in Procs |-> <<"Init", "AutoMaintenance">>]
    /\ status = [p \in Procs |-> "running"]
    /\ exitCode = [p \in Procs |-> 0]

\* AutoDiagnose has not run: no issue file, no issue to report.
NothingDiagnosed ==
    /\ now = 0
    /\ issuesJson = [exists |-> FALSE, mtime |-> 0]
    /\ reported = <<>>
    /\ beQuiet = FALSE
    /\ diagnosed = <<>>
    /\ issueLog = <<>>
    /\ issueEcho = <<>>

\* No signal has arrived and the main task has made no CheckCancel call.
NothingCancelled ==
    /\ cancelled = 0
    /\ checks = <<>>
    /\ handled = {}

\* main was started without arguments after the program name.
NoArguments ==
    /\ argv = <<>>
    /\ args = <<>>

\* Init has run: the logger exists (line 290) and SignalHandler is
\* installed (lines 509-510).
AfterInit ==
    /\ NothingDiagnosed
    /\ NothingCancelled
    /\ NoArguments
    /\ logger = TRUE
    /\ disposition = [sig \in InterruptSignals |-> "SignalHandler"]

\* Init has not run: no logger, the signals have their default disposition.
BeforeInit ==
    /\ NothingDiagnosed
    /\ NothingCancelled
    /\ NoArguments
    /\ logger = FALSE
    /\ disposition = [sig \in InterruptSignals |-> "SIG_DFL"]

\* Data roots the processes of Spec start on: the admin did maintenance at
\* time 1 or never, derived files were written at time 0, languages.ini at 1.
MaintScenarios ==
    {f \in FileSystems :
        /\ f.lastAdminMaintenance \in {0, 1}
        /\ f.lastUserMaintenance = 0
        /\ f.lastAdminUpdateDb \in {0, 1}
        /\ f.mpmDatabase.mtime = 0
        /\ f.userLanguageDat = [exists |-> TRUE, mtime |-> 0]
        /\ f.userLanguagesIni \in {[exists |-> FALSE, mtime |-> 0],
                                   [exists |-> TRUE, mtime |-> 1]}
        /\ f.userPackageManifestsIni = [exists |-> TRUE, mtime |-> 0]}

\* Every process has finished Init up to the call of AutoMaintenance (line 525).
Init ==
    /\ fs \in MaintScenarios
    /\ lockOwner = NoProc
    /\ pc = [p \in Procs |-> "AutoMaintenance"]
    /\ adminOption \in [Procs -> BOOLEAN]
    /\ adminMode = adminOption
    /\ must = [p \in Procs |-> NothingStale]
    /\ ran = [p \in Procs |-> <<>>]
    /\ errLog = [p \in Procs |-> {}]
    /\ raised = [p \in Procs |-> "none"]
    /\ InstallerIdle
    /\ TraceQuiet
    /\ LifeAfterInit
    /\ AfterInit

Next ==
    \E p \in Procs :
        \/ EvaluateStaleness(p)
        \/ AcquireLock(p)
        \/ UpdateDb(p)
        \/ RefreshFndb(p)
        \/ ConfigureFontmaps(p)
        \/ ConfigureLanguages(p)
        \/ LeaveLockedSection(p)

Spec == Init /\ [][Next]_vars

\* One process evaluates staleness on any data root.
InitOracle ==
    /\ fs \in FileSystems
    /\ lockOwner = NoProc
    /\ pc = [p \in Procs |-> IF p = 1 THEN "AutoMaintenance" ELSE "Exited"]
    /\ adminOption \in [Procs -> BOOLEAN]
    /\ \A p \in Procs : p # 1 => ~adminOption[p]
    /\ adminMode = adminOption
    /\ must = [p \in Procs |-> NothingStale]
    /\ ran = [p \in Procs |-> <<>>]
    /\ errLog = [p \in Procs |-> {}]
    /\ raised = [p \in Procs |-> "none"]
    /\ InstallerIdle
    /\ TraceQuiet
    /\ LifeAfterInit
    /\ AfterInit

NextOracle == \E p \in Procs : EvaluateStaleness(p)

SpecOracle == InitOracle /\ [][NextOracle]_vars

\* The steps of AutoMaintenance in process p.
AutoMaintenanceStep(p) ==
    \/ EvaluateStaleness(p)
    \/ AcquireLock(p)
    \/ UpdateDb(p)
    \/ RefreshFndb(p)
    \/ ConfigureFontmaps(p)
    \/ ConfigureLanguages(p)
    \/ LeaveLockedSection(p)

\* Process 1 keeps running: its calls of the catalog update and of the
\* helper subprocesses return. Nothing is assumed of the other processes,
\* which may stop anywhere, the lock file in hand.
SpecLive == Init /\ [][Next]_vars /\ WF_vars(AutoMaintenanceStep(1))

\* A data root on which nothing is stale.
FreshRoot ==
    [lastAdminMaintenance |-> 0,
     lastUserMaintenance |-> 0,
     lastAdminUpdateDb |-> 0,
     portable |-> TRUE,
     mpmDatabase |-> [exists |-> TRUE, mtime |-> 0],
     userLanguageDat |-> [exists |-> TRUE, mtime |-> 0],
     userLanguagesIni |-> [exists |-> FALSE, mtime |-> 0],
     userPackageManifestsIni |-> [exists |-> TRUE, mtime |-> 0],
     haveUtility |-> TRUE]

\* Process 1 has returned from Init (lines 499-508 have set the two flags;
\* AutoAdmin=t is dropped unless the setup is shared) and runs its main task.
InitInstall ==
    /\ fs = FreshRoot
    /\ lockOwner = NoProc
    /\ pc = [p \in Procs |-> IF p = 1 THEN "Main" ELSE "Exited"]
    /\ adminOption \in [Procs -> BOOLEAN]
    /\ sharedSetup \in [Procs -> BOOLEAN]
    /\ enableInstaller \in [Procs -> TriState]
    /\ mpmAutoAdmin \in [Procs -> TriState]
    /\ \A p \in Procs :
         /\ mpmAutoAdmin[p] = "True" => sharedSetup[p]
         /\ p # 1 => /\ ~adminOption[p] /\ ~sharedSetup[p]
                     /\ enableInstaller[p] = "Undetermined"
                     /\ mpmAutoAdmin[p] = "Undetermined"
    /\ adminMode = adminOption
    /\ must = [p \in Procs |-> NothingStale]
    /\ ran = [p \in Procs |-> <<>>]
    /\ errLog = [p \in Procs |-> {}]
    /\ raised = [p \in Procs |-> "none"]
    /\ ignoredPackages = [p \in Procs |-> {}]
    /\ haveObjects = [p \in Procs |-> NoObjects]
    /\ call = [p \in Procs |-> NoCall]
    /\ events = [p \in Procs |-> <<>>]
    /\ ret = [p \in Procs |-> "none"]
    /\ calls = [p \in Procs |-> 0]
    /\ dontAsk = [p \in Procs |-> "none"]
    /\ TraceQuiet
    /\ LifeAfterInit
    /\ AfterInit

NextInstall ==
    \E p \in Procs :
        \/ \E pkg \in Packages : BeginInstallPackage(p, pkg)
        \/ PromptUser(p)
        \/ ProxyAuthentication(p)
        \/ Elevate(p)
        \/ InstallRemove(p)
        \/ RestoreMode(p)
        \/ \E tri \in TriState : EnableInstaller(p, tri)

SpecInstall == InitInstall /\ [][NextInstall]_vars

\* Session::Create (line 470) is running in process 1: the session sends
\* trace messages and log4cxx is not configured before line 473.
InitTrace ==
    /\ fs = FreshRoot
    /\ lockOwner = NoProc
    /\ pc = [p \in Procs |-> IF p = 1 THEN "Init" ELSE "Exited"]
    /\ adminOption = [p \in Procs |-> FALSE]
    /\ adminMode = adminOption
    /\ must = [p \in Procs |-> NothingStale]
    /\ ran = [p \in Procs |-> <<>>]
    /\ errLog = [p \in Procs |-> {}]
    /\ raised = [p \in Procs |-> "none"]
    /\ InstallerIdle
    /\ isLog4cxxConfigured = FALSE
    /\ pendingTraceMessages = <<>>
    /\ sink = <<>>
    /\ cerrOut = <<>>
    /\ traced = 0
    /\ flushed = <<>>
    /\ enableMaintenance = [p \in Procs |-> "Undetermined"]
    /\ enableDiagnose = [p \in Procs |-> "Undetermined"]
    /\ phases = [p \in Procs |-> <<"Init">>]
    /\ status = [p \in Procs |-> "running"]
    /\ exitCode = [p \in Procs |-> 0]
    /\ BeforeInit

\* Trace messages arrive before and after ConfigureLogging.
NextTrace ==
    \/ \E traceMessage \in 1..MaxTraces : Trace(traceMessage)
    \/ ConfigureLogging

SpecTrace == InitTrace /\ [][NextTrace]_vars

\* A few trace messages, ConfigureLogging and the Finalize of process 1,
\* in any order.
NextFlush ==
    \/ \E traceMessage \in 1..MaxFlushTraces : Trace(traceMessage)
    \/ ConfigureLogging
    \/ Finalize(1)

SpecFlush == InitTrace /\ [][NextFlush]_vars

\* main of maketfm from Session::Create to its return: Init with
\* AutoMaintenance, the main task as a whole, the handlers and Finalize2.
\* The options have left each feature flag in any state (lines 188-238).
InitMain ==
    /\ fs \in MaintScenarios
    /\ lockOwner = NoProc
    /\ pc = [p \in Procs |-> IF p = 1 THEN "Init" ELSE "Exited"]
    /\ adminOption \in [Procs -> BOOLEAN]
    /\ adminMode = adminOption
    /\ must = [p \in Procs |-> NothingStale]
    /\ ran = [p \in Procs |-> <<>>]
    /\ errLog = [p \in Procs |-> {}]
    /\ raised = [p \in Procs |-> "none"]
    /\ InstallerIdle
    /\ isLog4cxxConfigured = FALSE
    /\ pendingTraceMessages = <<>>
    /\ sink = <<>>
    /\ cerrOut = <<>>
    /\ traced = 0
    /\ flushed = <<>>
    /\ enableMaintenance \in [Procs -> TriState]
    /\ enableDiagnose \in [Procs -> TriState]
    /\ \A p \in Procs :
         p # 1 => /\ ~adminOption[p]
                  /\ enableMaintenance[p] = "Undetermined"
                  /\ enableDiagnose[p] = "Undetermined"
    /\ phases = [p \in Procs |-> <<"Init">>]
    /\ status = [p \in Procs |-> "running"]
    /\ exitCode = [p \in Procs |-> 0]
    /\ BeforeInit

NextMain ==
    \E p \in Procs :
        \/ ApplicationInit(p)
        \/ EvaluateStaleness(p)
        \/ AcquireLock(p)
        \/ UpdateDb(p)
        \/ RefreshFndb(p)
        \/ ConfigureFontmaps(p)
        \/ ConfigureLanguages(p)
        \/ LeaveLockedSection(p)
        \/ Run(p)
        \/ MainCatch(p)
        \/ Finalize2(p)

SpecMain == InitMain /\ [][NextMain]_vars

\* main of maketfm with maintenance disabled by option: Init, a main task
\* that calls InstallPackage and EnableInstaller, the handlers and Finalize2.
InitRun ==
    /\ fs = FreshRoot
    /\ lockOwner = NoProc
    /\ pc = [p \in Procs |-> IF p = 1 THEN "Init" ELSE "Exited"]
    /\ adminOption \in [Procs -> BOOLEAN]
    /\ adminMode = adminOption
    /\ must = [p \in Procs |-> NothingStale]
    /\ ran = [p \in Procs |-> <<>>]
    /\ errLog = [p \in Procs |-> {}]
    /\ raised = [p \in Procs |-> "none"]
    /\ sharedSetup \in [Procs -> BOOLEAN]
    /\ enableInstaller \in [Procs -> TriState]
    /\ mpmAutoAdmin = [p \in Procs |-> "Undetermined"]
    /\ ignoredPackages = [p \in Procs |-> {}]
    /\ haveObjects = [p \in Procs |-> NoObjects]
    /\ call = [p \in Procs |-> NoCall]
    /\ events = [p \in Procs |-> <<>>]
    /\ ret = [p \in Procs |-> "none"]
    /\ calls = [p \in Procs |-> 0]
    /\ dontAsk = [p \in Procs |-> "none"]
    /\ isLog4cxxConfigured = FALSE
    /\ pendingTraceMessages = <<>>
    /\ sink = <<>>
    /\ cerrOut = <<>>
    /\ traced = 0
    /\ flushed = <<>>
    /\ enableMaintenance = [p \in Procs |-> IF p = 1 THEN "False" ELSE "Undetermined"]
    /\ enableDiagnose = [p \in Procs |-> "Undetermined"]
    /\ \A p \in Procs :
         p # 1 => /\ ~adminOption[p] /\ ~sharedSetup[p]
                  /\ enableInstaller[p] = "Undetermined"
    /\ phases = [p \in Procs |-> <<"Init">>]
    /\ status = [p \in Procs |-> "running"]
    /\ exitCode = [p \in Procs |-> 0]
    /\ BeforeInit

NextRun ==
    \E p \in Procs :
        \/ ApplicationInit(p)
        \/ \E pkg \in Packages : BeginInstallPackage(p, pkg)
        \/ PromptUser(p)
        \/ ProxyAuthentication(p)
        \/ Elevate(p)
        \/ InstallRemove(p)
        \/ RestoreMode(p)
        \/ \E tri \in TriState : EnableInstaller(p, tri)
        \/ Run(p)
        \/ MainCatch(p)
        \/ Finalize2(p)

SpecRun == InitRun /\ [][NextRun]_vars

\* The clock and the issue file around the one-week limit of line 431.
DiagnoseTimes == (0..MaxSkew) \cup {ONE_WEEK + d : d \in 0..MaxSkew}

IssueFiles ==
    [exists : {TRUE}, mtime : 0..MaxSkew] \cup {[exists |-> FALSE, mtime |-> 0]}

IssueLists == UNION {[1..n -> IssueSeverity] : n \in 0..MaxIssues}

\* main of maketfm with maintenance and the installer disabled by option
\* and diagnose as the options left it: Init, which may fail before the
\* logger exists, a main task that sets the quiet flag, the handlers and
\* Finalize2 with AutoDiagnose.
InitDiagnose ==
    /\ fs = FreshRoot
    /\ lockOwner = NoProc
    /\ pc = [p \in Procs |-> IF p = 1 THEN "Init" ELSE "Exited"]
    /\ adminOption = [p \in Procs |-> FALSE]
    /\ adminMode = adminOption
    /\ must = [p \in Procs |-> NothingStale]
    /\ ran = [p \in Procs |-> <<>>]
    /\ errLog = [p \in Procs |-> {}]
    /\ raised = [p \in Procs |-> "none"]
    /\ sharedSetup = [p \in Procs |-> FALSE]
    /\ enableInstaller = [p \in Procs |-> IF p = 1 THEN "False" ELSE "Undetermined"]
    /\ mpmAutoAdmin = [p \in Procs |-> "Undetermined"]
    /\ ignoredPackages = [p \in Procs |-> {}]
    /\ haveObjects = [p \in Procs |-> NoObjects]
    /\ call = [p \in Procs |-> NoCall]
    /\ events = [p \in Procs |-> <<>>]
    /\ ret = [p \in Procs |-> "none"]
    /\ calls = [p \in Procs |-> 0]
    /\ dontAsk = [p \in Procs |-> "none"]
    /\ isLog4cxxConfigured = FALSE
    /\ pendingTraceMessages = <<>>
    /\ sink = <<>>
    /\ cerrOut = <<>>
    /\ traced = 0
    /\ flushed = <<>>
    /\ enableMaintenance = [p \in Procs |-> IF p = 1 THEN "False" ELSE "Undetermined"]
    /\ enableDiagnose \in [Procs -> TriState]
    /\ \A p \in Procs : p # 1 => enableDiagnose[p] = "Undetermined"
    /\ phases = [p \in Procs |-> <<"Init">>]
    /\ status = [p \in Procs |-> "running"]
    /\ exitCode = [p \in Procs |-> 0]
    /\ now \in DiagnoseTimes
    /\ issuesJson \in IssueFiles
    /\ reported \in IssueLists
    /\ beQuiet = FALSE
    /\ logger = FALSE
    /\ diagnosed = <<>>
    /\ issueLog = <<>>
    /\ issueEcho = <<>>
    /\ NothingCancelled
    /\ disposition = [sig \in InterruptSignals |-> "SIG_DFL"]
    /\ NoArguments

NextDiagnose ==
    \E p \in Procs :
        \/ ApplicationInit(p)
        \/ InitFails(p)
        \/ \E b \in BOOLEAN : SetQuietFlag(p, b)
        \/ Run(p)
        \/ MainCatch(p)
        \/ Finalize2(p)

SpecDiagnose == InitDiagnose /\ [][NextDiagnose]_vars

\* main of maketfm with maintenance, diagnose and the installer disabled
\* by option: Init installs the signal handlers, the main task calls
\* CheckCancel, and SIGINT and SIGTERM arrive at any time.
InitCancel ==
    /\ fs = FreshRoot
    /\ lockOwner = NoProc
    /\ pc = [p \in Procs |-> IF p = 1 THEN "Init" ELSE "Exited"]
    /\ adminOption = [p \in Procs |-> FALSE]
    /\ adminMode = adminOption
    /\ must = [p \in Procs |-> NothingStale]
    /\ ran = [p \in Procs |-> <<>>]
    /\ errLog = [p \in Procs |-> {}]
    /\ raised = [p \in Procs |-> "none"]
    /\ sharedSetup = [p \in Procs |-> FALSE]
    /\ enableInstaller = [p \in Procs |-> IF p = 1 THEN "False" ELSE "Undetermined"]
    /\ mpmAutoAdmin = [p \in Procs |-> "Undetermined"]
    /\ ignoredPackages = [p \in Procs |-> {}]
    /\ haveObjects = [p \in Procs |-> NoObjects]
    /\ call = [p \in Procs |-> NoCall]
    /\ events = [p \in Procs |-> <<>>]
    /\ ret = [p \in Procs |-> "none"]
    /\ calls = [p \in Procs |-> 0]
    /\ dontAsk = [p \in Procs |-> "none"]
    /\ isLog4cxxConfigured = FALSE
    /\ pendingTraceMessages = <<>>
    /\ sink = <<>>
    /\ cerrOut = <<>>
    /\ traced = 0
    /\ flushed = <<>>
    /\ enableMaintenance = [p \in Procs |-> IF p = 1 THEN "False" ELSE "Undetermined"]
    /\ enableDiagnose = [p \in Procs |-> IF p = 1 THEN "False" ELSE "Undetermined"]
    /\ phases = [p \in Procs |-> <<"Init">>]
    /\ status = [p \in Procs |-> "running"]
    /\ exitCode = [p \in Procs |-> 0]
    /\ NothingDiagnosed
    /\ logger = FALSE
    /\ NothingCancelled
    /\ disposition \in [InterruptSignals -> InheritedDispositions]
    /\ NoArguments

NextCancel ==
    \E p \in Procs :
        \/ ApplicationInit(p)
        \/ \E sig \in InterruptSignals : Signal(p, sig)
        \/ CheckCancel(p)
        \/ Run(p)
        \/ MainCatch(p)
        \/ Finalize2(p)

SpecCancel == InitCancel /\ [][NextCancel]_vars

\* Argument vectors after the program name: the two maintenance options,
\* another option of the framework and an argument of the program.
Arguments ==
    {"--miktex-disable-maintenance", "--miktex-enable-maintenance",
     "--miktex-admin", "other"}

ArgVectors == UNION {[1..n -> Arguments] : n \in 0..MaxArgs}

\* main of maketfm from its start to the end of Init: ExamineArgs on the
\* argument vector, Init and AutoMaintenance on any data root. No switch
\* is set before ExamineArgs (lines 116-125).
InitArgs ==
    /\ fs \in MaintScenarios
    /\ lockOwner = NoProc
    /\ pc = [p \in Procs |-> IF p = 1 THEN "ExamineArgs" ELSE "Exited"]
    /\ adminOption = [p \in Procs |-> FALSE]
    /\ adminMode = adminOption
    /\ must = [p \in Procs |-> NothingStale]
    /\ ran = [p \in Procs |-> <<>>]
    /\ errLog = [p \in Procs |-> {}]
    /\ raised = [p \in Procs |-> "none"]
    /\ InstallerIdle
    /\ isLog4cxxConfigured = FALSE
    /\ pendingTraceMessages = <<>>
    /\ sink = <<>>
    /\ cerrOut = <<>>
    /\ traced = 0
    /\ flushed = <<>>
    /\ enableMaintenance = [p \in Procs |-> "Undetermined"]
    /\ enableDiagnose = [p \in Procs |-> "Undetermined"]
    /\ phases = [p \in Procs |-> <<"Init">>]
    /\ status = [p \in Procs |-> "running"]
    /\ exitCode = [p \in Procs |-> 0]
    /\ NothingDiagnosed
    /\ logger = FALSE
    /\ NothingCancelled
    /\ disposition = [sig \in InterruptSignals |-> "SIG_DFL"]
    /\ argv \in ArgVectors
    /\ args = argv

NextArgs ==
    \E p \in Procs :
        \/ ExamineArgs(p)
        \/ ApplicationInit(p)
        \/ EvaluateStaleness(p)
        \/ AcquireLock(p)
        \/ UpdateDb(p)
        \/ RefreshFndb(p)
        \/ ConfigureFontmaps(p)
        \/ ConfigureLanguages(p)
        \/ LeaveLockedSection(p)

SpecArgs == InitArgs /\ [][NextArgs]_vars

\* ---------------------------------------------------------------- claims
LockedPcs == {"UpdateDb", "Fndb", "Fontmaps", "Languages", "Unlock"}

\* p is between its successful TryLock and the release of the lock file.
InLockedSection(p) == pc[p] \in LockedPcs

\* AutoMaintenance of p is over: it returned to Init or left by a throw.
LeftAutoMaintenance(p) == pc[p] \in {"Main", "Caught"}

\* C1: at most one process at a time is between a successful TryLock and
\* the release, and that process is the holder of the lock file; so the
\* refresh actions of two processes never overlap.
C1_MutualExclusion ==
    /\ \A p \in Procs : \A q \in Procs :
         (InLockedSection(p) /\ InLockedSection(q)) => p = q
    /\ \A p \in Procs : InLockedSection(p) => lockOwner = {p}

\* One process is running refresh steps while another, with something stale
\* and the utility found, is about to try the lock.
C1_Witness ==
    \E p \in Procs : \E q \in Procs :
        /\ p # q
        /\ InLockedSection(p) /\ ran[p] # <<>>
        /\ pc[q] = "Lock" /\ WantsMaintenance(q)

\* C3: a process that finds something stale while the lock file is held
\* elsewhere goes from the lock attempt straight back to Init: it is never
\* blocked there, runs no refresh step and leaves the lock as it is.
C3_HeldLockReturnsAtOnce ==
    /\ [](\A p \in Procs : pc[p] = "Lock" => ENABLED AcquireLock(p))
    /\ [][\A p \in Procs :
            (pc[p] = "Lock" /\ WantsMaintenance(p) /\ lockOwner # NoProc
                /\ pc'[p] # pc[p])
            => (pc'[p] = "Main" /\ ran'[p] = <<>> /\ ran[p] = <<>>
                  /\ lockOwner' = lockOwner /\ raised'[p] = "none")]_vars

\* A process with something stale is back in Init without having run a step
\* while another process is inside the locked section.
C3_Witness ==
    \E p \in Procs : \E q \in Procs :
        /\ p # q
        /\ InLockedSection(p)
        /\ pc[q] = "Main" /\ WantsMaintenance(q) /\ ran[q] = <<>>

\* C4: a process that has left AutoMaintenance, by return or by an exception
\* of a step, does not hold the lock file; the lock file is held only by a
\* process inside the locked section.
C4_LockReleasedOnEveryExit ==
    /\ \A p \in Procs : LeftAutoMaintenance(p) => p \notin lockOwner
    /\ \A p \in lockOwner : InLockedSection(p)

\* The catalog update threw inside the locked section, failed helper runs
\* were logged in another process, and the lock file is free again.
C4_Witness ==
    \E p \in Procs : \E q \in Procs :
        /\ pc[p] = "Caught" /\ raised[p] = "MiKTeXException"
        /\ ran[p] = <<"UpdateDb">>
        /\ pc[q] = "Main" /\ errLog[q] # {}
        /\ lockOwner = NoProc

\* The steps the staleness flags m schedule, in the order of the code.
StepOrder == <<"UpdateDb", "Fndb", "Fontmaps", "Languages">>

IsScheduled(m, step) ==
    \/ step = "UpdateDb" /\ m.db
    \/ step \in {"Fndb", "Fontmaps"} /\ m.fndb
    \/ step = "Languages" /\ m.lang

AllScheduled(m) ==
    LET Keep(step) == IsScheduled(m, step) IN SelectSeq(StepOrder, Keep)

\* C5: a process that took the lock and is done with AutoMaintenance has run
\* every scheduled step and has returned normally to Init, whatever failed
\* (helper exit code, launch failure, catalog update).
C5_FailedStepOnlyLogged ==
    \A p \in Procs :
        (LeftAutoMaintenance(p) /\ ran[p] # <<>>)
        => (pc[p] = "Main" /\ raised[p] = "none" /\ ran[p] = AllScheduled(must[p]))

Rank(step) == CHOOSE i \in DOMAIN StepOrder : StepOrder[i] = step

\* C6: the steps a process has run are in the order catalog update, file
\* index, font maps, languages; none is run twice.
C6_FixedStepOrder ==
    \A p \in Procs :
        \A i \in DOMAIN ran[p] : \A j \in DOMAIN ran[p] :
            i < j => Rank(ran[p][i]) < Rank(ran[p][j])

\* A process has run all four steps, one of them failing.
C6_Witness ==
    \E p \in Procs : ran[p] = StepOrder /\ errLog[p] # {} /\ pc[p] = "Main"

\* The process has evaluated the three staleness classes.
Evaluated(p) == pc[p] = "Lock"

Absent(path) == ~path.exists

\* source timestamp strictly greater than the modification time of path
Outdated(path, sourceTime) == path.exists /\ sourceTime > path.mtime

C8_AdminModeOnlyIndexAbsence ==
    \A p \in Procs :
        (Evaluated(p) /\ adminMode[p]) =>
          /\ ~must[p].lang
          /\ ~must[p].db
          /\ must[p].fndb <=> Absent(fs.mpmDatabase)
          /\ \A step \in {"UpdateDb", "Fndb", "Fontmaps", "Languages"} :
               Scheduled(must[p], step) =>
                 (Absent(fs.mpmDatabase) /\ step \in {"Fndb", "Fontmaps"})

\* Admin mode with every derived file present and older than its source:
\* nothing is reported stale.
C8_Witness ==
    \E p \in Procs :
        /\ Evaluated(p) /\ adminMode[p]
        /\ Outdated(fs.mpmDatabase, fs.lastAdminMaintenance)
        /\ Outdated(fs.userLanguageDat, fs.lastAdminMaintenance)
        /\ IsNewer(fs.userLanguagesIni, fs.userLanguageDat)
        /\ Outdated(fs.userPackageManifestsIni, fs.lastAdminUpdateDb)
        /\ must[p] = NothingStale

\* The InstallPackage call of p is over (by return or by throw).
CallEnded(p) == ret[p] # "none" /\ pc[p] \in {"Main", "Caught"}

\* C2: when an InstallPackage call that switched the session to admin mode
\* is over, on whatever path, the admin-mode flag has its value of before
\* the call.
C2_AdminModeRestoredOnEveryExit ==
    \A p \in Procs :
        (CallEnded(p) /\ call[p].switchToAdminMode)
        => adminMode[p] = call[p].adminAtEntry

\* C9: a call for a declined package, or with the installer disabled, ends
\* in the same step with false: no collaborator is used, no object is
\* created, and flags, declined set and admin mode stay as they were.
C9_RejectedCallTouchesNothing ==
    [][\A p \in Procs :
          (/\ pc[p] = "Main"
           /\ calls'[p] # calls[p]
           /\ \/ call'[p].pkg \in ignoredPackages[p]
              \/ enableInstaller[p] = "False")
          => (/\ pc'[p] = "Main"
              /\ ret'[p] = "false"
              /\ events'[p] = <<>>
              /\ haveObjects'[p] = haveObjects[p]
              /\ enableInstaller'[p] = enableInstaller[p]
              /\ mpmAutoAdmin'[p] = mpmAutoAdmin[p]
              /\ ignoredPackages'[p] = ignoredPackages[p]
              /\ adminMode'[p] = adminMode[p])]_vars

\* A call for a package declined earlier was rejected while the installer
\* flag was not False.
C9_Witness ==
    \E p \in Procs :
        /\ pc[p] = "Main" /\ ret[p] = "false" /\ events[p] = <<>>
        /\ call[p].pkg \in call[p].ignoredAtEntry
        /\ call[p].enableAtEntry # "False"
        /\ calls[p] > 1

\* Number of installer invocations among the events e.
InstallCount(e) == Cardinality({i \in DOMAIN e : e[i] = "InstallRemove"})

\* C10: a session started in user mode is in user mode whenever no
\* InstallPackage call is in progress, and a call that switched to admin
\* mode made exactly one installer invocation before it ended.
C10_NeverLeftInAdminMode ==
    \A p \in Procs :
        /\ (~adminOption[p] /\ pc[p] \in {"Main", "Caught"}) => ~adminMode[p]
        /\ (CallEnded(p) /\ call[p].switchToAdminMode) => InstallCount(events[p]) = 1

\* The current call of p has seen its installer invocation fail with a
\* MiKTeXException: the handler has run and the call has not reported success.
InstallerFailed(p) ==
    /\ pc[p] \in {"Restore", "Main"}
    /\ InstallCount(events[p]) = 1
    /\ ~call[p].done

\* C11: a call whose installer invocation failed returns false to its
\* caller, nothing propagates, and on return the installer flag is False
\* and the package is in the declined set.
C11_InstallerFailureReturnsFalse ==
    [][\A p \in Procs :
         (pc[p] = "Restore" /\ ~call[p].done /\ pc'[p] # "Restore")
          => (/\ pc'[p] = "Main"
              /\ ret'[p] = "false"
              /\ raised'[p] = "none"
              /\ enableInstaller'[p] = "False"
              /\ call[p].pkg \in ignoredPackages'[p]
              /\ "InstallRemove" \in errLog'[p])]_vars

\* A call that was allowed to install has returned false after the failure.
C11_Witness ==
    \E p \in Procs :
        /\ InstallerFailed(p) /\ pc[p] = "Main" /\ ret[p] = "false"
        /\ call[p].enableAtEntry = "True"
        /\ enableInstaller[p] = "False"
        /\ call[p].pkg \in ignoredPackages[p] \ call[p].ignoredAtEntry

\* An installer failure has been logged by p at some earlier moment.
FailureLogged(p) == "InstallRemove" \in errLog[p]

\* Positions of a call that got past the checks of lines 638-645.
PastEntryChecks == {"Prompt", "Proxy", "Elevate", "Install", "Restore"}

\* C12 as stated: once an installer failure has happened the flag is False
\* for good and no later call gets past the entry checks.
C12_DisabledForTheRestOfTheProcess ==
    \A p \in Procs :
        FailureLogged(p)
         => (/\ enableInstaller[p] = "False"
             /\ pc[p] \notin {"Prompt", "Proxy", "Elevate", "Install"})

\* C12: after an installer failure the flag stays False in every step that is
\* not a call of EnableInstaller, every call begun while it is False ends at
\* once without prompt or installer, and the failed package stays declined,
\* so that a call for it ends at once whatever the flag.
C12_DisabledUntilEnableInstaller ==
    [][\A p \in Procs :
         FailureLogged(p)
          => (/\ (enableInstaller[p] = "False"
                   /\ ~(\E tri \in TriState : EnableInstaller(p, tri)))
                  => enableInstaller'[p] = "False"
              /\ ignoredPackages[p] \subseteq ignoredPackages'[p]
              /\ (calls'[p] # calls[p]
                   /\ (enableInstaller[p] = "False"
                        \/ call'[p].pkg \in ignoredPackages[p]))
                  => (/\ pc'[p] = "Main"
                      /\ ret'[p] = "false"
                      /\ events'[p] = <<>>))]_vars

\* After a failed call for one package, a call for another package has been
\* turned away by the disabled installer.
C12_Witness ==
    \E p \in Procs :
        /\ FailureLogged(p)
        /\ pc[p] = "Main" /\ ret[p] = "false" /\ events[p] = <<>>
        /\ call[p].enableAtEntry = "False"
        /\ call[p].ignoredAtEntry # {}
        /\ call[p].pkg \notin call[p].ignoredAtEntry

\* The last thing the current call of p did.
LastEvent(p) == IF events[p] = <<>> THEN "none" ELSE events[p][Len(events[p])]

\* The events e hold the event named ev.
Has(e, ev) == \E i \in DOMAIN e : e[i] = ev

\* The current call of p ended when the user said no to the install prompt.
DeclinedByUser(p) ==
    pc[p] = "Main" /\ ret[p] = "false" /\ LastEvent(p) = "InstallPackageMessageBox"

\* C13: the prompt is shown only while the flag is undetermined; when the
\* user says no the call returns false with the package in the declined set
\* and without installer call, proxy prompt or admin-mode switch.
C13_DeclineReturnsFalse ==
    \A p \in Procs :
        /\ Has(events[p], "InstallPackageMessageBox")
            => call[p].enableAtEntry = "Undetermined"
        /\ (pc[p] = "Main" /\ LastEvent(p) = "InstallPackageMessageBox")
            => (/\ ret[p] = "false"
                /\ call[p].pkg \in ignoredPackages[p]
                /\ ~Has(events[p], "InstallRemove")
                /\ ~Has(events[p], "CreateInstaller")
                /\ ~Has(events[p], "ProxyAuthenticationDialog")
                /\ ~Has(events[p], "SetAdminMode(true)")
                /\ ~Has(events[p], "SetAdminMode(false)")
                /\ adminMode[p] = call[p].adminAtEntry)

\* The user has declined a package that was not declined before.
C13_Witness ==
    \E p \in Procs :
        /\ DeclinedByUser(p)
        /\ call[p].enableAtEntry = "Undetermined"
        /\ call[p].pkg \in ignoredPackages[p] \ call[p].ignoredAtEntry

\* The current call of p began with the installer enabled, the auto-admin
\* policy on and the session in admin mode.
AlreadyAdmin(p) ==
    /\ calls[p] > 0
    /\ call[p].enableAtEntry = "True"
    /\ call[p].autoAdminAtEntry = "True"
    /\ call[p].adminAtEntry

\* The current call of p ended when the proxy dialog was cancelled.
ProxyCancelled(p) ==
    pc[p] = "Main" /\ ret[p] = "false" /\ LastEvent(p) = "ProxyAuthenticationDialog"

\* C14 as stated: such a call makes no mode switch, leaves the session in
\* admin mode and has made exactly one installer invocation when it ends.
C14_AlreadyAdminOneInvocation ==
    \A p \in Procs :
        AlreadyAdmin(p)
         => (/\ adminMode[p]
             /\ ~Has(events[p], "SetAdminMode(true)")
             /\ ~Has(events[p], "SetAdminMode(false)")
             /\ CallEnded(p) => InstallCount(events[p]) = 1)

\* C14: such a call makes no mode switch and leaves the session in admin
\* mode; when it ends it has made one installer invocation, or none if the
\* package was declined earlier or the proxy dialog was cancelled.
C14_AlreadyAdminAtMostOneInvocation ==
    \A p \in Procs :
        AlreadyAdmin(p)
         => (/\ adminMode[p]
             /\ ~call[p].switchToAdminMode
             /\ ~Has(events[p], "SetAdminMode(true)")
             /\ ~Has(events[p], "SetAdminMode(false)")
             /\ CallEnded(p)
                 => InstallCount(events[p]) =
                      IF call[p].pkg \in call[p].ignoredAtEntry \/ ProxyCancelled(p)
                      THEN 0 ELSE 1)

\* A call begun in admin mode has installed its package and returned true.
C14_Witness ==
    \E p \in Procs :
        /\ AlreadyAdmin(p) /\ pc[p] = "Main" /\ ret[p] = "true"
        /\ InstallCount(events[p]) = 1
        /\ adminMode[p]

\* The value a "don't ask again" answer asks the installer flag to keep.
Persisted(answer) == IF answer = "yes" THEN "True" ELSE "False"

\* C15 as stated: once the user has answered with "don't ask again" the
\* installer flag has the value of that answer for good.
C15_AnswerKeptForTheRestOfTheProcess ==
    \A p \in Procs :
        dontAsk[p] # "none" => enableInstaller[p] = Persisted(dontAsk[p])

\* The step of p is the failure handler of the installer invocation.
FailureHandled(p) == pc[p] = "Install" /\ pc'[p] = "Restore" /\ ~call'[p].done

\* The step of p shows the install prompt.
PromptShown(p) ==
    pc[p] = "Prompt" /\ Has(events'[p], "InstallPackageMessageBox")

\* C15: a "don't ask again" answer sets the installer flag to True on
\* consent and to False on decline; from then on the flag changes only in
\* the failure handler of the installer (to False) and in EnableInstaller,
\* and the install prompt is shown only while the flag is undetermined.
C15_AnswerKeptUntilFailureOrEnableInstaller ==
    [][\A p \in Procs :
         /\ (PromptShown(p) /\ "DONTASKAGAIN" \in call'[p].msgBoxRet)
             => (/\ enableInstaller'[p] =
                      IF "YES" \in call'[p].msgBoxRet THEN "True" ELSE "False"
                 /\ dontAsk'[p] # "none"
                 /\ enableInstaller'[p] = Persisted(dontAsk'[p]))
         /\ PromptShown(p) => enableInstaller[p] = "Undetermined"
         /\ (dontAsk[p] # "none"
              /\ ~(\E tri \in TriState : EnableInstaller(p, tri)))
             => enableInstaller'[p] =
                  IF FailureHandled(p) THEN "False"
                  ELSE IF PromptShown(p) /\ "DONTASKAGAIN" \in call'[p].msgBoxRet
                       THEN Persisted(dontAsk'[p])
                       ELSE enableInstaller[p]]_vars

\* After a "yes, don't ask again" in the first call, the second call has
\* installed its package without showing the prompt.
C15_Witness ==
    \E p \in Procs :
        /\ dontAsk[p] = "yes" /\ calls[p] > 1
        /\ call[p].enableAtEntry = "True"
        /\ pc[p] = "Main" /\ ret[p] = "true"
        /\ ~Has(events[p], "InstallPackageMessageBox")

\* The step of p is the return after a cancelled proxy dialog.
ProxyCancelStep(p) == pc[p] = "Proxy" /\ pc'[p] = "Main"

\* C16 as stated: a cancelled proxy dialog returns false with no installer
\* call and no mode switch, the two flags and the declined set being what
\* they were when the call began.
C16_ProxyCancelKeepsEntryValues ==
    [][\A p \in Procs :
         ProxyCancelStep(p)
          => (/\ ret'[p] = "false"
              /\ ~Has(events'[p], "InstallRemove")
              /\ ~Has(events'[p], "SetAdminMode(true)")
              /\ adminMode'[p] = call[p].adminAtEntry
              /\ enableInstaller'[p] = call[p].enableAtEntry
              /\ mpmAutoAdmin'[p] = call[p].autoAdminAtEntry
              /\ ignoredPackages'[p] = call[p].ignoredAtEntry)]_vars

\* C16: a cancelled proxy dialog returns false with no installer call and
\* no mode switch; the two flags and the declined set keep the values they
\* had when the proxy dialog was shown, which are those of the beginning of
\* the call when the call did not show the install prompt before.
C16_ProxyCancelChangesNothing ==
    [][\A p \in Procs :
         ProxyCancelStep(p)
          => (/\ ret'[p] = "false"
              /\ LastEvent(p)' = "ProxyAuthenticationDialog"
              /\ ~Has(events'[p], "InstallRemove")
              /\ ~Has(events'[p], "CreateInstaller")
              /\ ~Has(events'[p], "SetAdminMode(true)")
              /\ ~Has(events'[p], "SetAdminMode(false)")
              /\ adminMode'[p] = call[p].adminAtEntry
              /\ enableInstaller'[p] = enableInstaller[p]
              /\ mpmAutoAdmin'[p] = mpmAutoAdmin[p]
              /\ ignoredPackages'[p] = ignoredPackages[p]
              /\ ignoredPackages'[p] = call[p].ignoredAtEntry
              /\ ~Has(events[p], "InstallPackageMessageBox")
                  => (/\ enableInstaller'[p] = call[p].enableAtEntry
                      /\ mpmAutoAdmin'[p] = call[p].autoAdminAtEntry))]_vars

\* The proxy dialog was cancelled in a call whose install prompt had already
\* changed the auto-admin policy.
C16_Witness ==
    \E p \in Procs :
        /\ ProxyCancelled(p)
        /\ Has(events[p], "InstallPackageMessageBox")
        /\ mpmAutoAdmin[p] # call[p].autoAdminAtEntry
        /\ ignoredPackages[p] = call[p].ignoredAtEntry

\* C17: a call returns true only after exactly one installer invocation
\* whose file list was the requested package alone and which did not fail;
\* the installation root is written in such a call and in no other.
C17_TrueOnlyAfterOneCleanInvocation ==
    \A p \in Procs :
        /\ ret[p] = "true"
            => (/\ InstallCount(events[p]) = 1
                /\ Has(events[p], "SetFileLists")
                /\ call[p].fileList = <<call[p].pkg>>
                /\ call[p].done
                /\ call[p].installRootSet
                /\ raised[p] = "none")
        /\ call[p].installRootSet
            => (call[p].done /\ InstallCount(events[p]) = 1 /\ ret[p] \in {"none", "true"})
        /\ ret[p] \in {"false", "threw"} => ~call[p].installRootSet

\* One call has returned true with the installation root written.
C17_Witness ==
    \E p \in Procs :
        /\ pc[p] = "Main" /\ ret[p] = "true"
        /\ call[p].installRootSet
        /\ call[p].fileList = <<call[p].pkg>>
        /\ InstallCount(events[p]) = 1

\* The messages numbered from..to in the order of their arrival.
Arrivals(from, to) == [i \in 1..(to - from + 1) |-> from + i - 1]

\* q holds the last Len(q) messages that have arrived, in arrival order.
IsSuffixOfArrivals(q) == q = Arrivals(traced - Len(q) + 1, traced)

\* C18: while log4cxx is not configured a trace message is appended to the
\* pending queue, after the whole queue has been discarded if it held more
\* than 100 messages; nothing is written meanwhile; the queue never holds
\* more than 101 messages and always holds the most recent arrivals in
\* arrival order.
C18_PendingQueueBounded ==
    /\ [](/\ Len(pendingTraceMessages) <= PendingLimit + 1
          /\ IsSuffixOfArrivals(pendingTraceMessages))
    /\ [][(traced' # traced /\ ~isLog4cxxConfigured)
           => (/\ pendingTraceMessages' =
                    IF Len(pendingTraceMessages) > PendingLimit
                    THEN <<traced'>>
                    ELSE Append(pendingTraceMessages, traced')
               /\ sink' = sink
               /\ cerrOut' = cerrOut)]_vars

\* The queue is full: the next message discards it.
C18_Witness ==
    /\ ~isLog4cxxConfigured
    /\ Len(pendingTraceMessages) = PendingLimit + 1
    /\ traced = PendingLimit + 1

\* C19 as stated: recording the 101st message clears the queue, which holds
\* exactly that message afterwards.
C19_ClearedAtThe101stEntry ==
    (~isLog4cxxConfigured /\ traced = 101) => Len(pendingTraceMessages) = 1

\* C19: the queue holds every message up to the 101st; recording the 102nd
\* clears it, after which it holds that message alone and accumulates again:
\* after 150 messages it holds the 102nd to the 150th.
C19_ClearedAtThe102ndEntry ==
    ~isLog4cxxConfigured
     => (/\ traced <= 101 => pendingTraceMessages = Arrivals(1, traced)
         /\ traced = 102 => pendingTraceMessages = <<102>>
         /\ (traced >= 102 /\ traced <= 202)
             => pendingTraceMessages = Arrivals(102, traced)
         /\ traced = 150 => Len(pendingTraceMessages) = 49)

\* 150 messages have been recorded before log4cxx was configured.
C19_Witness ==
    /\ ~isLog4cxxConfigured
    /\ traced = 150
    /\ pendingTraceMessages = Arrivals(102, 150)

\* The trace messages written so far, to log4cxx or to cerr.
Delivered == sink \o cerrOut

\* No message occurs twice in the sequence q.
NoDuplicates(q) == \A i, j \in DOMAIN q : q[i] = q[j] => i = j

\* C20: a flush delivers every pending message once and leaves the queue
\* empty, so that a second flush delivers nothing; from Init through Trace
\* calls to Finalize no message is delivered twice, and no delivered message
\* is still pending.
C20_FlushDeliversOnce ==
    /\ [](/\ NoDuplicates(Delivered)
          /\ \A i \in DOMAIN pendingTraceMessages :
               \A j \in DOMAIN Delivered : pendingTraceMessages[i] # Delivered[j])
    /\ [][flushed' # flushed
           => (/\ pendingTraceMessages' = <<>>
               /\ Len(Delivered') = Len(Delivered) + Len(pendingTraceMessages)
               /\ flushed' = Append(flushed, Len(pendingTraceMessages))
               /\ pendingTraceMessages = <<>> => Delivered' = Delivered)]_vars

\* Two flushes after the last message: the first has delivered the pending
\* messages, the second nothing.
C20_Witness ==
    /\ Len(flushed) = 2
    /\ flushed[1] > 1
    /\ flushed[2] = 0
    /\ Len(Delivered) = traced
    /\ pendingTraceMessages = <<>>

\* C21: with log4cxx configured, the messages written to it followed by the
\* pending ones are the most recent arrivals in arrival order; a Trace call
\* then writes the pending messages, then its own message, and leaves the
\* queue empty, so that the queue is empty once anything has been written.
C21_SinkReceivesInArrivalOrder ==
    /\ [](isLog4cxxConfigured
           => (/\ IsSuffixOfArrivals(sink \o pendingTraceMessages)
               /\ sink # <<>> => pendingTraceMessages = <<>>))
    /\ [][(isLog4cxxConfigured /\ traced' # traced)
           => (/\ sink' = (sink \o pendingTraceMessages) \o <<traced'>>
               /\ pendingTraceMessages' = <<>>
               /\ cerrOut' = cerrOut)]_vars

\* log4cxx was configured after the first overflow: what it has received
\* starts with the first message kept and ends with a message traced directly.
C21_Witness ==
    /\ isLog4cxxConfigured
    /\ pendingTraceMessages = <<>>
    /\ Len(sink) > 2
    /\ sink[1] = PendingLimit + 2
    /\ sink[Len(sink)] = traced

\* The step of p is made by Finalize.
FinalizeStep(p) == pc[p] \in {"Finalize2", "Finalize2Catch"} /\ pc'[p] # pc[p]

\* C22: outside Finalize no step removes a package from the declined set,
\* and the set is empty when Finalize has returned.
C22_DeclinedSetOnlyGrows ==
    [][\A p \in Procs :
         /\ ~FinalizeStep(p) => ignoredPackages[p] \subseteq ignoredPackages'[p]
         /\ (FinalizeStep(p) /\ pc'[p] = "Exited" /\ status'[p] = "returned")
             => ignoredPackages'[p] = {}
         /\ (FinalizeStep(p) /\ ignoredPackages'[p] # ignoredPackages[p])
             => ignoredPackages'[p] = {}]_vars

\* main has returned after a task in which the user declined two packages.
C22_Witness ==
    \E p \in Procs :
        /\ status[p] = "returned"
        /\ ignoredPackages[p] = {}
        /\ calls[p] > 1
        /\ call[p].ignoredAtEntry # {}
        /\ LastEvent(p) = "InstallPackageMessageBox" /\ ret[p] = "false"

\* None of the three staleness classes holds for p.
NoneStale(p) == ~must[p].fndb /\ ~must[p].lang /\ ~must[p].db

\* C23: when AutoMaintenance has found nothing stale it returns at once:
\* the lock file is neither created nor taken, no refresh step is run.
C23_NothingStaleNoLock ==
    /\ [](\A p \in Procs :
            (pc[p] \notin {"AutoMaintenance", "Caught"} /\ NoneStale(p))
             => (/\ pc[p] \in {"Lock", "Main"}
                 /\ ran[p] = <<>>
                 /\ errLog[p] = {}
                 /\ p \notin lockOwner))
    /\ [][\A p \in Procs :
            (pc[p] = "Lock" /\ NoneStale(p) /\ pc'[p] # "Lock")
             => (/\ pc'[p] = "Main"
                 /\ lockOwner' = lockOwner
                 /\ ran' = ran)]_vars

\* A process with nothing stale is back in Init while the helper exists and
\* nobody holds the lock file.
C23_Witness ==
    \E p \in Procs :
        /\ pc[p] = "Main" /\ NoneStale(p) /\ ~IsSetupMode(fs)
        /\ fs.haveUtility
        /\ lockOwner = NoProc
        /\ ran[p] = <<>>

\* The current or last run of main in p went through the fresh-installation
\* exit of AutoMaintenance.
FreshInstallation(p) == IsSetupMode(fs) /\ Has(phases[p], "AutoMaintenance")

\* C24: on a fresh installation AutoMaintenance raises the integer 1 before
\* it evaluates staleness, takes the lock or runs a refresh step, and the
\* process exits with that integer as its exit code.
C24_FreshInstallationExitsWithSignal ==
    \A p \in Procs :
        (FreshInstallation(p) /\ pc[p] # "AutoMaintenance")
         => (/\ must[p] = NothingStale
             /\ ran[p] = <<>>
             /\ p \notin lockOwner
             /\ pc[p] \in {"Caught", "Finalize2Catch", "Exited"}
             /\ pc[p] = "Exited"
                 => (status[p] = "returned" /\ exitCode[p] = SetupSignal))

\* C25: Finalize, with the AutoDiagnose call in it, returns to its caller
\* whatever the diagnostics collaborator does: nothing is raised.
C25_AutoDiagnoseNeverRaises ==
    [][\A p \in Procs :
         FinalizeStep(p)
          => (/\ raised'[p] = raised[p]
              /\ pc'[p] = "Exited"
              /\ status'[p] = "returned")]_vars

\* C26: a process that has gone through the locked section has run each
\* refresh step iff the staleness class of that step was found true.
C26_StepIffOwnClassStale ==
    \A p \in Procs :
        (pc[p] = "Main" /\ ran[p] # <<>>)
         => (/\ Has(ran[p], "UpdateDb") <=> must[p].db
             /\ Has(ran[p], "Fndb") <=> must[p].fndb
             /\ Has(ran[p], "Fontmaps") <=> must[p].lang
             /\ Has(ran[p], "Languages") <=> must[p].lang)

\* Something is stale for p and the helper executable is not found.
HelperMissing(p) == ~NoneStale(p) /\ ~fs.haveUtility

\* C27: when something is stale and the helper executable is not found,
\* AutoMaintenance returns to Init: no lock is taken, no refresh step and no
\* catalog update is run, no error is logged and nothing is raised.
C27_MissingHelperSkipsSilently ==
    /\ [](\A p \in Procs :
            HelperMissing(p)
             => (/\ pc[p] \in {"Lock", "Main"}
                 /\ ran[p] = <<>>
                 /\ errLog[p] = {}
                 /\ raised[p] = "none"
                 /\ p \notin lockOwner))
    /\ [][\A p \in Procs :
            (pc[p] = "Lock" /\ HelperMissing(p) /\ pc'[p] # "Lock")
             => (/\ pc'[p] = "Main"
                 /\ lockOwner' = lockOwner
                 /\ ran' = ran
                 /\ errLog' = errLog)]_vars

\* A process with a stale catalog and no helper is back in Init while
\* nobody holds the lock file.
C27_Witness ==
    \E p \in Procs :
        /\ pc[p] = "Main" /\ HelperMissing(p) /\ must[p].db
        /\ lockOwner = NoProc
        /\ ran[p] = <<>> /\ errLog[p] = {}

\* The step changes the installer flag or the auto-admin flag of p.
FlagsChange(p) ==
    enableInstaller'[p] # enableInstaller[p] \/ mpmAutoAdmin'[p] # mpmAutoAdmin[p]

\* The step of p is configuration: Init reading the configuration, or a
\* call of EnableInstaller.
Configures(p) == pc[p] = "Init" \/ \E tri \in TriState : EnableInstaller(p, tri)

\* C28 as stated: the two flags change only in Init, in EnableInstaller and
\* in the answer to the install prompt.
C28_FlagsChangeOnlyByConfigOrAnswer ==
    [][\A p \in Procs : FlagsChange(p) => (Configures(p) \/ PromptShown(p))]_vars

\* C28: the auto-admin flag changes only in Init and in the answer to the
\* install prompt; the installer flag changes only there, in EnableInstaller
\* and in the failure handler of the installer, which sets it to False.
C28_FlagsChangeAlsoByInstallerFailure ==
    [][\A p \in Procs :
         /\ mpmAutoAdmin'[p] # mpmAutoAdmin[p] => (pc[p] = "Init" \/ PromptShown(p))
         /\ enableInstaller'[p] # enableInstaller[p]
             => (Configures(p) \/ PromptShown(p) \/ FailureHandled(p))
         /\ FailureHandled(p) => enableInstaller'[p] = "False"]_vars

\* The failure handler has just disabled an installer that the user had
\* allowed for this one package.
C28_Witness ==
    \E p \in Procs :
        /\ pc[p] = "Restore" /\ InstallerFailed(p)
        /\ call[p].enableAtEntry = "Undetermined"
        /\ "DONTASKAGAIN" \notin call[p].msgBoxRet
        /\ enableInstaller[p] = "False"

\* C29: AutoDiagnose is never called once the main task has run: in the
\* order of the components it comes before the end of Run.
C29_DiagnoseBeforeMainTask ==
    \A p \in Procs :
        \A i \in DOMAIN phases[p] : \A j \in DOMAIN phases[p] :
            (phases[p][i] = "RunEnded" /\ phases[p][j] = "AutoDiagnose") => j < i

\* C30: process 1, once in AutoMaintenance, leaves it, by return or by
\* throw, whatever the other processes do with the lock file; the processes
\* are interchangeable, so this holds for each of them.
C30_AutoMaintenanceTerminates ==
    (pc[1] = "AutoMaintenance") ~> LeftAutoMaintenance(1)

\* Process 1 wanted the lock file, found it held by another process and is
\* back in Init while that process still holds it.
C30_Witness ==
    /\ pc[1] = "Main"
    /\ WantsMaintenance(1)
    /\ ran[1] = <<>>
    /\ lockOwner # NoProc
    /\ 1 \notin lockOwner

\* ------------------------------------------------------------- AutoDiagnose
\* A step in which process p runs Finalize.
RunsFinalize(p) == pc[p] \in {"Finalize2", "Finalize2Catch"} /\ pc'[p] # pc[p]

\* The issue file exists and was written at most seven days before now.
FreshIssueFile == issuesJson.exists /\ now - issuesJson.mtime <= 7 * 86400

\* C31: a call of AutoDiagnose makes exactly one call of the setup service:
\* it loads the cached issues (GetIssues) iff the issue file exists and now
\* is at most 7 days after its last write time, and recomputes them
\* (FindIssues) in every other case; no call is made when AutoDiagnose is
\* not run.
C31_CachedIffFreshIssueFile ==
    [][RunsFinalize(1) =>
         IF enableDiagnose[1] = "True"
         THEN diagnosed' = Append(diagnosed,
                                  IF FreshIssueFile THEN "GetIssues"
                                  ELSE "FindIssues")
         ELSE diagnosed' = diagnosed]_vars

\* AutoDiagnose has loaded the cached issues of a file written exactly
\* seven days ago.
C31_Witness ==
    /\ diagnosed = <<"GetIssues">>
    /\ issuesJson.exists
    /\ now = issuesJson.mtime + 7 * 86400

\* A step in which the AutoDiagnose call of Finalize returns.
DiagnoseReturns(p) ==
    RunsFinalize(p) /\ enableDiagnose[p] = "True" /\ status'[p] = "returned"

\* The log level the severity of an issue asks for.
LevelOf(severity) ==
    IF severity = "Critical" THEN "FATAL"
    ELSE IF severity = "Major" THEN "ERROR" ELSE "WARN"

\* The issues a call with the quiet flag in its current state echoes.
ToBeEchoed ==
    SelectSeq(reported,
              LAMBDA severity : severity \in {"Critical", "Major"} /\ ~beQuiet)

\* C32 as stated: AutoDiagnose logs every issue at the level of its severity
\* and echoes to cerr exactly the Critical and Major issues when the quiet
\* flag is not set.
C32_EveryIssueLoggedAndEchoed ==
    [][DiagnoseReturns(1) =>
         /\ issueLog' = issueLog \o [i \in 1..Len(reported) |->
                                       <<reported[i], LevelOf(reported[i])>>]
         /\ issueEcho' = issueEcho \o ToBeEchoed]_vars

\* C32 amended: AutoDiagnose logs every issue at the level of its severity
\* if the logger exists and logs nothing if it does not; in both cases it
\* echoes to cerr exactly the Critical and Major issues when the quiet flag
\* is not set.
C32_LoggedIfLoggerExistsAndEchoed ==
    [][DiagnoseReturns(1) =>
         /\ issueLog' = issueLog \o
                          (IF logger
                           THEN [i \in 1..Len(reported) |->
                                   <<reported[i], LevelOf(reported[i])>>]
                           ELSE <<>>)
         /\ issueEcho' = issueEcho \o ToBeEchoed]_vars

\* AutoDiagnose has logged a Critical and a Warning issue and, the quiet
\* flag not being set, has echoed the Critical one only.
C32_Witness ==
    /\ status[1] = "returned"
    /\ ~beQuiet
    /\ reported = <<"Critical", "Warning">>
    /\ issueLog = <<<<"Critical", "FATAL">>, <<"Warning", "WARN">>>>
    /\ issueEcho = <<"Critical">>

\* ------------------------------------------------------------- exit code
\* The exit code the convention asks for after what was thrown in main.
ConventionalExitCode(r) ==
    IF r = "none" THEN 0 ELSE IF r = "int1" THEN SetupSignal ELSE 1

\* C33: main always ends by returning, never by an abnormal termination;
\* when it has returned, the exit code is 0 if nothing was thrown, 1 if an
\* error exception was thrown and the thrown integer if an integer was
\* thrown, and Finalize has been run exactly once.
C33_ExitCodeAfterOneTeardown ==
    \A p \in Procs :
        /\ status[p] # "terminated"
        /\ status[p] = "returned" =>
             /\ exitCode[p] = ConventionalExitCode(raised[p])
             /\ Len(flushed) = 1
             /\ Len(diagnosed) <= 1

\* ----------------------------------------------------------- cancellation
\* A step in which SignalHandler handles sig.
Handles(sig) == disposition[sig] = "SignalHandler" /\ Signal(1, sig)

\* C34: the cancellation flag is clear at the start; a step in which SIGINT
\* or SIGTERM is handled sets it; once set it stays set, and nothing but a
\* handled signal sets it; a CheckCancel call raises iff the flag is set
\* when it is made, so every CheckCancel call made after a signal was
\* handled raises.
C34_CancelledStaysSet ==
    /\ cancelled = 0
    /\ [][/\ \A sig \in InterruptSignals : Handles(sig) => cancelled' # 0
          /\ cancelled # 0 => cancelled' # 0
          /\ cancelled' # cancelled =>
                \E sig \in InterruptSignals : Handles(sig)
          /\ CheckCancel(1) =>
                /\ (cancelled # 0) <=>
                      /\ checks' = Append(checks, "raised")
                      /\ raised'[1] = "MiKTeXException"
                      /\ pc'[1] = "Caught"
                /\ (cancelled = 0) <=>
                      /\ checks' = Append(checks, "returned")
                      /\ raised'[1] = raised[1]
                      /\ pc'[1] = "Main"
                /\ handled # {} => checks' = Append(checks, "raised")]_vars

\* The main task called CheckCancel twice: the first call returned, then
\* SIGTERM was handled, and the second call raised.
C34_Witness ==
    /\ checks = <<"returned", "raised">>
    /\ handled = {"SIGTERM"}
    /\ cancelled = 1
    /\ pc[1] = "Caught"

\* ---------------------------------------------------------- shared setup
\* C35: in a setup that is not shared, no InstallPackage call of the process
\* switches the session into admin mode, whatever the configured auto-admin
\* policy and the user's answer to the prompt are.
C35_NoElevationUnlessShared ==
    \A p \in Procs :
        ~sharedSetup[p] =>
            /\ ~Has(events[p], "SetAdminMode(true)")
            /\ ~call[p].switchToAdminMode

\* ---------------------------------------------------------------- options
\* The last of the two maintenance options in the argument vector of main.
LastMaintenanceOption ==
    LET given == SelectSeq(argv, LAMBDA arg :
                     arg \in {"--miktex-disable-maintenance",
                              "--miktex-enable-maintenance"})
    IN IF given = <<>> THEN "none" ELSE given[Len(given)]

\* Process p is in Init or in its main task, ExamineArgs is over.
ArgsExamined(p) == pc[p] # "ExamineArgs"

\* C36: if the last maintenance option given is --miktex-disable-maintenance,
\* Init never calls AutoMaintenance: the process never evaluates staleness,
\* never raises the fresh-installation signal, never holds the lock and
\* never runs a refresh step, whatever the data root looks like; if no
\* maintenance option is given, maintenance is enabled when Init has set its
\* defaults and AutoMaintenance is called.
C36_DisabledMaintenanceNeverRuns ==
    /\ LastMaintenanceOption = "--miktex-disable-maintenance" =>
          /\ ArgsExamined(1) => enableMaintenance[1] = "False"
          /\ ~Has(phases[1], "AutoMaintenance")
          /\ pc[1] \in {"ExamineArgs", "Init", "Main"}
          /\ raised[1] = "none"
          /\ 1 \notin lockOwner
          /\ ran[1] = <<>>
          /\ must[1] = NothingStale
    /\ LastMaintenanceOption = "none" /\ pc[1] \notin {"ExamineArgs", "Init"} =>
          /\ enableMaintenance[1] = "True"
          /\ Has(phases[1], "AutoMaintenance")

\* On a fresh installation, maintenance was enabled and then disabled by
\* option: Init has returned without the fresh-installation signal.
C36_Witness ==
    /\ argv = <<"--miktex-enable-maintenance", "--miktex-disable-maintenance">>
    /\ IsSetupMode(fs)
    /\ pc[1] = "Main"
    /\ raised[1] = "none"
====
